---- MODULE Spec2Model ----
(***************************************************************************)
(* A model of code.gopub.tech/monitor: a client that lazily creates        *)
(* prometheus metric families, caches them per kind, registers each one    *)
(* against its registry and records observations, reporting every internal *)
(* failure to an error counter and a logger instead of the caller.         *)
(*                                                                         *)
(* Text is a sequence of code points (a metric name is built and escaped   *)
(* character by character); label keys, label values and error kinds are   *)
(* TLA+ strings.  A float64 is an integer number of thousandths, a         *)
(* time.Duration an integer number of nanoseconds.                         *)
(***************************************************************************)
EXTENDS Integers, Sequences, FiniteSets, TLC

\* Number of goroutines that call the client concurrently.
NProcs == 2
\* Number of recording calls started in one behaviour.
MaxCalls == 3
\* Length of the raw metric names drawn from Alphabet.
MaxLen == 2
\* Number of steps of a caller that works with contexts (CtxAddLabels,
\* CtxGetLabels, a write to a map it got, a recording call) in one behaviour.
MaxCtxOps == 4

Procs == 1..NProcs

None == "none"
\* What a call holds before getCounter / ... has returned a family to it
NoVec == [unset |-> TRUE]

(***************************************************************************)
(* Text                                                                    *)
(***************************************************************************)
S_counter == <<99, 111, 117, 110, 116, 101, 114, 58>>
S_gauge == <<103, 97, 117, 103, 101, 58>>
S_timer == <<116, 105, 109, 101, 114, 58>>
S_seconds == <<95, 115, 101, 99, 111, 110, 100, 115>>
S_histogram == <<104, 105, 115, 116, 111, 103, 114, 97, 109, 58>>
S_summary == <<115, 117, 109, 109, 97, 114, 121, 58>>
S_internal_monitor_error ==
    <<105, 110, 116, 101, 114, 110, 97, 108, 95, 109, 111, 110, 105, 116,
      111, 114, 95, 101, 114, 114, 111, 114>>
S_U == <<85, 95, 95>>
S_colon == <<58>>
S_m == <<109>>
S_ns == <<110, 115>>
S_sub == <<115, 117, 98>>
S_reqs == <<114, 101, 113, 115>>

IsLetter(c) == (c >= 65 /\ c <= 90) \/ (c >= 97 /\ c <= 122)
IsDigit(c) == c >= 48 /\ c <= 57
\* model.isValidLegacyRune: [a-zA-Z_:] anywhere, [0-9] after the first place
IsValidLegacyRune(c, i) ==
    IsLetter(c) \/ c = 95 \/ c = 58 \/ (IsDigit(c) /\ i > 1)

\* model.IsValidLegacyMetricName: ^[a-zA-Z_:][a-zA-Z0-9_:]*$
IsValidLegacyMetricName(s) ==
    Len(s) > 0 /\ \A i \in 1..Len(s) : IsValidLegacyRune(s[i], i)

\* A hex digit in upper case
HexDigitUpper(d) == IF d < 10 THEN 48 + d ELSE 65 + (d - 10)

HexDigit(d) == IF d < 10 THEN 48 + d ELSE 97 + (d - 10)

RECURSIVE Hex(_)
\* strconv.FormatInt(n, 16)
Hex(n) == IF n < 16 THEN <<HexDigit(n)>> ELSE Hex(n \div 16) \o <<HexDigit(n % 16)>>

RECURSIVE EscapeFrom(_, _)
EscapeFrom(s, i) ==
    IF i > Len(s) THEN <<>>
    ELSE (IF IsValidLegacyRune(s[i], i) THEN <<s[i]>>
          ELSE <<95>> \o Hex(s[i]) \o <<95>>) \o EscapeFrom(s, i + 1)

\* EscapeName: a legal name (and the empty one) unchanged, any other one as
\* "U__" and then each rune, an illegal one written as _<hex code point>_
EscapeName(s) ==
    IF Len(s) = 0 \/ IsValidLegacyMetricName(s) THEN s
    ELSE S_U \o EscapeFrom(s, 1)

(***************************************************************************)
(* The client's construction-time configuration                            *)
(***************************************************************************)
NameAppend(prefix, suffix) == [Prefix |-> prefix, Suffix |-> suffix]

\* NewClient: the default name appends
DefaultNames ==
    [Counter   |-> NameAppend(S_counter, <<>>),
     Gauge     |-> NameAppend(S_gauge, <<>>),
     Timer     |-> NameAppend(S_timer, S_seconds),
     Histogram |-> NameAppend(S_histogram, <<>>),
     Summary   |-> NameAppend(S_summary, <<>>)]

\* NewClient: the default bucket list, prometheus.DefBuckets, in thousandths
DefBuckets == <<5, 10, 25, 50, 100, 250, 500, 1000, 2500, 5000, 10000>>

\* A map[float64]float64 is a set of <<key, value>> pairs with distinct keys;
\* a nil map has no pairs and is told apart from an empty one only by isNil.
GoMap(isNil, pairs) == [isNil |-> isNil, pairs |-> pairs]
NilMap == GoMap(TRUE, {})
EmptyMap == GoMap(FALSE, {})

\* NewClient: the default objectives, an empty (non-nil) map
DefObjectives == EmptyMap

RECURSIVE JoinColon(_)
\* strings.Join(names, ":")
JoinColon(names) ==
    IF Len(names) = 0 THEN <<>>
    ELSE IF Len(names) = 1 THEN names[1]
    ELSE names[1] \o S_colon \o JoinColon(Tail(names))

\* A filter that keeps every member, the empty ones too
FilterNothing(names) == names

\* iters.Of(...).Filter(values.IsNotZero).ToSlice()
FilterNotZero(names) == SelectSeq(names, LAMBDA n : Len(n) > 0)

\* client.buildFQName after EscapeName(name): the prefix, the escaped name
\* and the suffix, joined to the namespace and the subsystem that are not ""
joinFQName(namespace, subsystem, escaped, na) ==
    JoinColon(FilterNotZero(
        <<namespace, subsystem, na.Prefix \o escaped \o na.Suffix>>))

\* client.buildFQName
buildFQName(namespace, subsystem, name, na) ==
    joinFQName(namespace, subsystem, EscapeName(name), na)

(***************************************************************************)
(* Labels                                                                  *)
(***************************************************************************)
EmptyLabels == [k \in {} |-> ""]

\* m[k] = v on a map[string]string
MapPut(m, k, v) == [x \in DOMAIN m \cup {k} |-> IF x = k THEN v ELSE m[x]]

RECURSIVE rangeKVPadFrom(_, _, _)
\* rangeKV that takes a last element without a partner as a key for ""
rangeKVPadFrom(kvs, i, m) ==
    IF i <= Len(kvs)
    THEN rangeKVPadFrom(kvs, i + 2,
             MapPut(m, kvs[i], IF i < Len(kvs) THEN kvs[i + 1] ELSE ""))
    ELSE m

RECURSIVE rangeKVFrom(_, _, _)
\* rangeKV with f = "m[k] = v": for i := 0; i < size-1; i += 2
rangeKVFrom(kvs, i, m) ==
    IF i < Len(kvs) THEN rangeKVFrom(kvs, i + 2, MapPut(m, kvs[i], kvs[i + 1]))
    ELSE m

\* CtxGetLabels: a clone of the map attached to ctx (a ctx is its label map)
CtxGetLabels(ctx) == ctx

\* CtxAddLabels
CtxAddLabels(ctx, kvs) == rangeKVFrom(kvs, 1, CtxGetLabels(ctx))

\* tags: the ctx labels overridden by the call's pairs, and their keys
tags(ctx, kvs) ==
    LET t == rangeKVFrom(kvs, 1, CtxGetLabels(ctx))
    IN  [keys |-> DOMAIN t, tags |-> t]

(***************************************************************************)
(* Labels on the heap: a map[string]string is an object that several       *)
(* holders can share, a context holds a reference to one.                  *)
(***************************************************************************)
\* maps[i] is the content of map object i, ctxs[c] the map object attached
\* to context c (0 when none is), held the map objects a caller got from
\* CtxGetLabels and can write to.  Context 1 is context.Background().
NewMem == [maps |-> <<>>, ctxs |-> <<0>>, held |-> {}]
Background == 1

\* make(map[string]string) / maps.Clone: a new map object
Alloc(m, content) ==
    [mem |-> [m EXCEPT !.maps = Append(@, content)], ref |-> Len(m.maps) + 1]

\* ctxGetLabels: the map object attached to ctx, or a new empty one
ctxGetLabels(m, c) ==
    IF m.ctxs[c] # 0 THEN [mem |-> m, ref |-> m.ctxs[c]]
    ELSE Alloc(m, EmptyLabels)

\* The labels a reader finds attached to ctx
LabelsOf(m, c) == IF m.ctxs[c] = 0 THEN EmptyLabels ELSE m.maps[m.ctxs[c]]

\* CtxGetLabels that hands out the attached map itself
CtxGetLabelsShared(m, c) == ctxGetLabels(m, c)

\* CtxGetLabels on the heap: maps.Clone(ctxGetLabels(ctx)).  The empty map
\* that ctxGetLabels makes for a context without labels is not kept.
CtxGetLabelsRef(m, c) ==
    LET r == ctxGetLabels(m, c) IN Alloc(m, r.mem.maps[r.ref])

\* rangeKV(kvs, func(k, v) { m[k] = v }) on map object ref
WritePairs(m, ref, kvs) == [m EXCEPT !.maps[ref] = rangeKVFrom(kvs, 1, @)]

\* CtxAddLabels that writes the pairs to the map attached to ctx
CtxAddLabelsInPlace(m, c, kvs) ==
    LET r == ctxGetLabels(m, c)
        w == WritePairs(r.mem, r.ref, kvs)
    IN  [mem |-> [w EXCEPT !.ctxs = Append(@, r.ref)], ctx |-> Len(w.ctxs) + 1]

\* CtxAddLabels on the heap: the clone, the pairs written to it, and a new
\* context that holds it (context.WithValue)
CtxAddLabelsRef(m, c, kvs) ==
    LET r == CtxGetLabelsRef(m, c)
        w == WritePairs(r.mem, r.ref, kvs)
    IN  [mem |-> [w EXCEPT !.ctxs = Append(@, r.ref)], ctx |-> Len(w.ctxs) + 1]

\* tags that writes the call's pairs to the map attached to ctx
tagsInPlace(m, c, kvs) ==
    LET r == ctxGetLabels(m, c)
    IN  [mem |-> WritePairs(r.mem, r.ref, kvs), ref |-> r.ref]

\* tags on the heap: the clone with the call's pairs written to it
tagsRef(m, c, kvs) ==
    LET r == CtxGetLabelsRef(m, c)
    IN  [mem |-> WritePairs(r.mem, r.ref, kvs), ref |-> r.ref]

\* The heap once the caller of tags has let go of the map it got: the map
\* object is freed when no context holds it
Release(m, ref) ==
    IF ref = Len(m.maps) /\ \A c \in 1..Len(m.ctxs) : m.ctxs[c] # ref
    THEN [m EXCEPT !.maps = SubSeq(@, 1, ref - 1)]
    ELSE m

(***************************************************************************)
(* The prometheus library, as far as the client uses it                    *)
(***************************************************************************)
\* Label names the library rejects (checkLabelName): they make the
\* descriptor of a new vec invalid, which Register then reports.
IsValidLabelName(k) == k \notin {"", "__name__"}

\* prometheus.NewCounterVec / NewGaugeVec / NewHistogramVec / NewSummaryVec:
\* a new family object.  id tells one object from another; the descriptor is
\* invalid when a label name is illegal or repeats a const label; dims is
\* what the descriptor's dimHash is made of, the label names and the help.
NewVec(kind, fq, keys, cfg, constLabels, id) ==
    [kind |-> kind, fq |-> fq, keys |-> keys, cfg |-> cfg, id |-> id,
     valid |-> \A k \in keys : IsValidLabelName(k) /\ k \notin constLabels,
     dims |-> [names |-> keys \cup constLabels, help |-> cfg.Help]]

\* What Registry.Register answers for a collector with one descriptor, in
\* the order of its checks: the descriptor's own error; an error when the
\* registry holds a descriptor of that name with other label names or another
\* help; AlreadyRegisteredError when it holds one with the same name and
\* const labels; nil otherwise.
RegisterResult(reg, fq, valid, dims) ==
    IF ~valid THEN "invalid"
    ELSE IF fq \in DOMAIN reg
         THEN (IF reg[fq].dims # dims THEN "inconsistent" ELSE "dup")
    ELSE "ok"

\* Registry.Register: the registry afterwards
RegistryAfter(reg, fq, valid, entry) ==
    IF RegisterResult(reg, fq, valid, entry.dims) = "ok"
    THEN [n \in DOMAIN reg \cup {fq} |-> IF n = fq THEN entry ELSE reg[n]]
    ELSE reg

\* GetMetricWith that only counts the labels of the map
GetMetricWithErrCountOnly(vec, t) ==
    Cardinality(DOMAIN t) # Cardinality(vec.keys)

\* GetMetricWith that gives a metric for any label map
GetMetricWithErrNever(vec, t) == FALSE

\* GetMetricWith that only looks for the family's label names in the map
GetMetricWithErrMissingOnly(vec, t) == \E k \in vec.keys : k \notin DOMAIN t

\* MetricVec.GetMetricWith: nil exactly when the label map has as many labels
\* as the family has label names and holds every one of them
GetMetricWithErr(vec, t) ==
    \/ Cardinality(DOMAIN t) # Cardinality(vec.keys)
    \/ \E k \in vec.keys : k \notin DOMAIN t

\* errors.As(err, &prometheus.AlreadyRegisteredError{})
isAlreadyRegisteredError(err) == err = "dup"

(***************************************************************************)
(* Numbers                                                                 *)
(***************************************************************************)
\* nums.To[float64]: an integer or a float64 as a float64 (thousandths)
ToFloat64(v) == IF v.t = "int" THEN v.n * 1000 ELSE v.n
IntV(n) == [t |-> "int", n |-> n]
FloatV(n) == [t |-> "float", n |-> n]

\* time.Duration.Seconds: nanoseconds as float64 seconds (thousandths)
Seconds(d) == d \div (1000 * 1000)
Millisecond == 1000 * 1000

\* iters.Maps(buckets, d.Seconds).ToSlice()
RECURSIVE SecondsBucket(_)
SecondsBucket(ds) ==
    IF Len(ds) = 0 THEN <<>> ELSE <<Seconds(Head(ds))>> \o SecondsBucket(Tail(ds))

\* A comparison of the lengths only
SlicesEqualLen(a, b) == Len(a) = Len(b)

\* slices.Equal
SlicesEqual(a, b) == Len(a) = Len(b) /\ \A i \in 1..Len(a) : a[i] = b[i]

\* A comparison that tells a nil map from an empty one (reflect.DeepEqual)
MapsDeepEqual(a, b) == a = b

\* maps.Equal: same length and every pair of the one in the other
MapsEqual(a, b) ==
    /\ Cardinality(a.pairs) = Cardinality(b.pairs)
    /\ \A e \in a.pairs : e \in b.pairs

(***************************************************************************)
(* State                                                                   *)
(***************************************************************************)
VARIABLES
    client,     \* the client's configuration, fixed by NewClient
    registry,   \* c.registry: fully-qualified name -> registered collector
    cache,      \* c.counter, c.gauge, c.histogram, c.summary: name -> family
    series,     \* the metrics inside each family object: id -> labels -> metric
    g,          \* each goroutine's place in its call, and the call's locals
    ncalls,     \* recording calls started so far
    errCalls,   \* recordErr invocations so far, per <<name, kind>>
    regCalls,   \* registry.Register calls made by register, per <<kind, name>>
    sinkDrops,  \* failures of recordErr's own registration, dropped silently
    mem,        \* the label maps and the contexts that hold them
    hist,       \* the labels each context was made with, the caller's steps
                \* with contexts so far, the context each map it holds is from
    timers,     \* the clock, what the stop function that Timer returned
                \* holds, and the locals of each goroutine's call of it
    pkg         \* the package's defaultClient, the clients made and the
                \* handlers HTTPHandler returned

vars == <<client, registry, cache, series, g, ncalls, errCalls, regCalls,
          sinkDrops, mem, hist, timers, pkg>>

CacheKinds == {"counter", "gauge", "histogram", "summary"}

\* prometheus.Opts / HistogramOpts / SummaryOpts (ConstLabels are the
\* client's, the same for every family)
Opts(name, help, buckets, objectives) ==
    [Name |-> name, Help |-> help, Buckets |-> buckets, Objectives |-> objectives]

\* A registry entry: a family ("vec"), the error counter ("errcounter", with
\* its label values and value) or a collector registered by somebody else.
RegEntry(type, id, dims, labels, value) ==
    [type |-> type, id |-> id, dims |-> dims, labels |-> labels, value |-> value]

\* The registry entry of a family
VecEntry(vec) == RegEntry("vec", vec.id, vec.dims, <<>>, 0)

\* A collector somebody else registered, with no labels and no help
External == RegEntry("external", <<0, 0>>, [names |-> {}, help |-> ""], <<>>, 0)

\* An option record for NewClient; a zero field is an option not given.
NoOpts ==
    [namespace |-> <<>>, subsystem |-> <<>>, constLabels |-> {},
     buckets |-> <<>>, objectives |-> NilMap, registered |-> {}]

\* NewClient: the options applied, then the defaults for what is still zero
NewClient(o) ==
    [namespace   |-> EscapeName(o.namespace),
     subsystem   |-> EscapeName(o.subsystem),
     names       |-> DefaultNames,
     constLabels |-> o.constLabels,
     buckets     |-> IF Len(o.buckets) = 0 THEN DefBuckets ELSE o.buckets,
     objectives  |-> IF Cardinality(o.objectives.pairs) = 0 THEN EmptyMap
                     ELSE o.objectives]

\* WithRegistry(registry): a registry that already holds collectors under
\* the names in o.registered; prometheus.NewRegistry() when there are none
NewRegistry(o) == [n \in o.registered |-> External]

\* The clients of the program: defaultClient's first one and one more that
\* the program made with NewClient()
Clients == {1, 2}

\* What NewClient(opts...) makes
NewState(o) ==
    [client |-> NewClient(o), registry |-> NewRegistry(o),
     cache |-> [k \in CacheKinds |-> [n \in {} |-> None]],
     series |-> [i \in {} |-> None],
     errCalls |-> [e \in {} |-> 0], regCalls |-> [e \in {} |-> 0],
     sinkDrops |-> 0]

\* No request served, no result of Default() yet
NoClient == 0

\* No stop function of Timer made yet; no stop function called yet
NoTimer == [open |-> FALSE, start |-> 0, asked |-> <<>>, buckets |-> <<>>]
NoStop == [name |-> <<>>, start |-> 0, buckets |-> <<>>, at |-> 0, cost |-> 0]

\* The package after init(): defaultClient is the first client, which every
\* goroutine reads as such, and http.Handle has the handler HTTPHandler()
\* returned.  cur is the client whose state the variables client, registry,
\* cache, ... hold; parked holds the state of the others.
NewPkg ==
    [default |-> 1,
     seen |-> [p \in Procs |-> {1}],
     cur |-> 1,
     parked |-> [c \in Clients |-> NewState(NoOpts)],
     handlers |-> <<[built |-> 1]>>,
     served |-> [p \in Procs |-> NoClient],
     got |-> [p \in Procs |-> NoClient],
     on |-> [p \in Procs |-> NoClient]]

\* The state after NewClient(opts...)
InitWith(o) ==
    /\ client = NewClient(o)
    /\ registry = NewRegistry(o)
    /\ cache = [k \in CacheKinds |-> [n \in {} |-> None]]
    /\ series = [i \in {} |-> None]
    /\ g = [p \in Procs |->
             [pc |-> "idle", k |-> 0, call |-> None, v |-> NoVec,
              loaded |-> FALSE, err |-> None,
              reported |-> <<>>, logged |-> <<>>, wrote |-> 0, regs |-> 0]]
    /\ ncalls = 0
    /\ errCalls = [e \in {} |-> 0]
    /\ regCalls = [e \in {} |-> 0]
    /\ sinkDrops = 0
    /\ mem = NewMem
    /\ hist = [born |-> <<EmptyLabels>>, log |-> <<>>, from |-> [r \in {} |-> 0]]
    /\ timers = [now |-> 0, held |-> NoTimer,
                 last |-> [p \in Procs |-> NoStop]]
    /\ pkg = NewPkg

(***************************************************************************)
(* A recording call: its arguments, and what the facade makes of them      *)
(***************************************************************************)
\* The arguments of a call; a field an operation does not take is zero.
Input(op, name, ctx, kvs, value, cost, buckets, objectives) ==
    [op |-> op, name |-> name, desc |-> "", ctx |-> ctx, kvs |-> kvs,
     value |-> value, cost |-> cost, buckets |-> buckets,
     objectives |-> objectives]

\* The same call with the help text d
WithDesc(in, d) == [in EXCEPT !.desc = d]

\* client.prometheusOpt(name, desc, na).Name
prometheusOpt(c, name, na) == buildFQName(c.namespace, c.subsystem, name, na)

\* What a call hands to getCounter / getGauge / recordHistogram /
\* recordSummary: the cache, the name, the float64 value and the config.
Resolved(kind, fq, in, value, buckets, objectives) ==
    [op |-> in.op, kind |-> kind, fq |-> fq,
     keys |-> tags(in.ctx, in.kvs).keys, tags |-> tags(in.ctx, in.kvs).tags,
     value |-> value, opts |-> Opts(fq, in.desc, buckets, objectives)]

\* client.RecordN
RecordN(c, in) ==
    Resolved("counter", prometheusOpt(c, in.name, c.names.Counter), in,
             ToFloat64(in.value), <<>>, NilMap)
\* client.Record
Record(c, in) == RecordN(c, [in EXCEPT !.value = IntV(1)])
\* client.Store
Store(c, in) ==
    Resolved("gauge", prometheusOpt(c, in.name, c.names.Gauge), in,
             ToFloat64(in.value), <<>>, NilMap)
\* client.Cost
Cost(c, in) ==
    Resolved("histogram", prometheusOpt(c, in.name, c.names.Timer), in,
             Seconds(in.cost), c.buckets, NilMap)
\* client.CostBuckets (buckets is a list of durations)
CostBuckets(c, in) ==
    Resolved("histogram", prometheusOpt(c, in.name, c.names.Timer), in,
             Seconds(in.cost), SecondsBucket(in.buckets), NilMap)
\* client.Timer(buckets...) and its stop function, cost after the start
Timer(c, in) ==
    Resolved("histogram", prometheusOpt(c, in.name, c.names.Timer), in,
             Seconds(in.cost),
             IF Len(in.buckets) = 0 THEN c.buckets ELSE in.buckets, NilMap)
\* client.Histogram
Histogram(c, in) ==
    Resolved("histogram", prometheusOpt(c, in.name, c.names.Histogram), in,
             ToFloat64(in.value), in.buckets, NilMap)
\* client.Observe and its stop function
Observe(c, in) ==
    Resolved("summary", prometheusOpt(c, in.name, c.names.Timer), in,
             Seconds(in.cost), <<>>, NilMap)
\* client.SummaryObjectives
SummaryObjectives(c, in) ==
    Resolved("summary", prometheusOpt(c, in.name, c.names.Summary), in,
             ToFloat64(in.value), <<>>, in.objectives)
\* client.Summary
Summary(c, in) == SummaryObjectives(c, [in EXCEPT !.objectives = c.objectives])

Facade(c, in) ==
    CASE in.op = "Record" -> Record(c, in)
      [] in.op = "RecordN" -> RecordN(c, in)
      [] in.op = "Store" -> Store(c, in)
      [] in.op = "Cost" -> Cost(c, in)
      [] in.op = "CostBuckets" -> CostBuckets(c, in)
      [] in.op = "Timer" -> Timer(c, in)
      [] in.op = "Histogram" -> Histogram(c, in)
      [] in.op = "Observe" -> Observe(c, in)
      [] in.op = "Summary" -> Summary(c, in)
      [] in.op = "SummaryObjectives" -> SummaryObjectives(c, in)

(***************************************************************************)
(* The cache, the error counter and the metrics                            *)
(***************************************************************************)
\* LoadOrStore that reports "stored" to every caller
LoadOrStoreNeverLoaded(m, key, value) ==
    IF key \in DOMAIN m
    THEN [m |-> m, v |-> m[key], loaded |-> FALSE]
    ELSE [m |-> [n \in DOMAIN m \cup {key} |-> IF n = key THEN value ELSE m[n]],
          v |-> value, loaded |-> FALSE]

\* LoadOrStore that stores the given value over the one present (a Swap)
LoadOrStoreOverwrites(m, key, value) ==
    [m |-> [n \in DOMAIN m \cup {key} |-> IF n = key THEN value ELSE m[n]],
     v |-> value, loaded |-> key \in DOMAIN m]

\* LoadOrStore whose caller keeps the value it passed in
LoadOrStoreReturnsCandidate(m, key, value) ==
    IF key \in DOMAIN m
    THEN [m |-> m, v |-> value, loaded |-> TRUE]
    ELSE [m |-> [n \in DOMAIN m \cup {key} |-> IF n = key THEN value ELSE m[n]],
          v |-> value, loaded |-> FALSE]

\* syncs.Map.LoadOrStore: the stored value when the key is present, and
\* otherwise the given one, stored
LoadOrStore(m, key, value) ==
    IF key \in DOMAIN m
    THEN [m |-> m, v |-> m[key], loaded |-> TRUE]
    ELSE [m |-> [n \in DOMAIN m \cup {key} |-> IF n = key THEN value ELSE m[n]],
          v |-> value, loaded |-> FALSE]

\* n + 1 at key e of a counting map
Bump(f, e) ==
    [x \in DOMAIN f \cup {e} |->
        IF x = e THEN (IF e \in DOMAIN f THEN f[e] + 1 ELSE 1) ELSE f[x]]

\* The help of the error counter (a fixed text, written here in ASCII)
ErrHelp == "da dian yi chang"

\* EscapeName("internal_monitor_error"), the same in every recordErr
EscapedErrName == EscapeName(S_internal_monitor_error)

\* The name of the error counter: buildFQName("internal_monitor_error", ...)
ErrName(c) ==
    joinFQName(c.namespace, c.subsystem, EscapedErrName, c.names.Counter)

\* client.recordErr: a new CounterVec, its child for (name, kind), an attempt
\* to register the child whose error is dropped, and the child's Inc.  The
\* child counts 1 afterwards; it is in the registry when Register took it.
recordErr(c, reg, name, kind) ==
    LET fq == ErrName(c)
        vec == NewVec("counter", fq, {"name", "kind"},
                      Opts(fq, ErrHelp, <<>>, NilMap), c.constLabels, <<0, 0>>)
        res == RegisterResult(reg, fq, vec.valid, vec.dims)
    IN  [registry |-> RegistryAfter(reg, fq, vec.valid,
                                    RegEntry("errcounter", <<0, 0>>, vec.dims,
                                             <<name, kind>>, 1)),
         dropped |-> IF res = "ok" THEN 0 ELSE 1]

NoMetric == [count |-> 0, sum |-> 0, buckets |-> <<>>]

\* The first bucket whose upper bound holds v counts it (sort.SearchFloat64s)
BucketsAfter(counts, bounds, v) ==
    LET c0 == IF Len(counts) = Len(bounds) THEN counts
              ELSE [i \in 1..Len(bounds) |-> 0]
        hit == {i \in 1..Len(bounds) : v <= bounds[i]}
    IN  [i \in 1..Len(bounds) |->
            IF hit # {} /\ i = (CHOOSE j \in hit : \A h \in hit : j <= h)
            THEN c0[i] + 1 ELSE c0[i]]

\* The bucket bounds a histogram family uses: DefBuckets when it was made
\* with none
VecBounds(vec) ==
    IF Len(vec.cfg.Buckets) = 0 THEN DefBuckets ELSE vec.cfg.Buckets

\* Counter.Add, Gauge.Set, Histogram.Observe, Summary.Observe on one metric
Written(vec, m, v) ==
    CASE vec.kind = "counter" -> [m EXCEPT !.sum = m.sum + v]
      [] vec.kind = "gauge" -> [m EXCEPT !.sum = v]
      [] vec.kind = "histogram" ->
            [count |-> m.count + 1, sum |-> m.sum + v,
             buckets |-> BucketsAfter(m.buckets, VecBounds(vec), v)]
      [] vec.kind = "summary" -> [m EXCEPT !.count = m.count + 1, !.sum = m.sum + v]

\* GetMetricWith(tags) on the family and the write into the metric it gives
SeriesAfter(ser, vec, t, v) ==
    LET fam == IF vec.id \in DOMAIN ser THEN ser[vec.id] ELSE [x \in {} |-> NoMetric]
        old == IF t \in DOMAIN fam THEN fam[t] ELSE NoMetric
        new == [x \in DOMAIN fam \cup {t} |->
                   IF x = t THEN Written(vec, old, v) ELSE fam[x]]
    IN  [i \in DOMAIN ser \cup {vec.id} |-> IF i = vec.id THEN new ELSE ser[i]]

(***************************************************************************)
(* The steps of a recording call.  A step ends at each access to state the *)
(* goroutines share: the cache, the registry, a family's metrics.          *)
(***************************************************************************)
\* The step after getCounter / getGauge / getHistogram / getSummary returns
AfterGet(kind) == IF kind \in {"histogram", "summary"} THEN "check" ELSE "metric"

\* A report that reaches the logger and not the error counter
ReportLogOnly(p, gp, kind, event) ==
    /\ g' = [g EXCEPT ![p] = [gp EXCEPT !.logged = Append(@, event)]]
    /\ UNCHANGED <<registry, sinkDrops, errCalls>>

\* A report whose recordErr reports its own failed registration in turn
ReportReentrant(p, gp, kind, event) ==
    LET r == recordErr(client, registry, gp.call.fq, kind)
        again == r.dropped = 1
        e == <<ErrName(client), "register_counter_dup">>
    IN  /\ registry' = r.registry
        /\ sinkDrops' = sinkDrops + r.dropped
        /\ errCalls' = IF again THEN Bump(Bump(errCalls, <<gp.call.fq, kind>>), e)
                       ELSE Bump(errCalls, <<gp.call.fq, kind>>)
        /\ g' = [g EXCEPT ![p] =
                   [gp EXCEPT !.reported = Append(@, kind),
                              !.logged = IF again THEN Append(Append(@, event), e[2])
                                         ELSE Append(@, event)]]

\* recordErr(name, kind) and c.logger(ctx, event, ...) by goroutine p
Report(p, gp, kind, event) ==
    LET r == recordErr(client, registry, gp.call.fq, kind)
    IN  /\ registry' = r.registry
        /\ sinkDrops' = sinkDrops + r.dropped
        /\ errCalls' = Bump(errCalls, <<gp.call.fq, kind>>)
        /\ g' = [g EXCEPT ![p] = [gp EXCEPT !.reported = Append(@, kind),
                                              !.logged = Append(@, event)]]

\* A goroutine enters Record, RecordN, Store, Cost, CostBuckets, Histogram,
\* Summary, SummaryObjectives or the stop function of Timer or Observe
Enter(p, in) ==
    /\ g[p].pc = "idle"
    /\ ncalls < MaxCalls
    /\ ncalls' = ncalls + 1
    /\ g' = [g EXCEPT ![p] =
               [pc |-> "get", k |-> g[p].k + 1, call |-> Facade(client, in),
                v |-> NoVec, loaded |-> FALSE, err |-> None,
                reported |-> <<>>, logged |-> <<>>, wrote |-> 0, regs |-> 0]]
    /\ UNCHANGED <<client, registry, cache, series, errCalls, regCalls, sinkDrops>>

\* A recording call whose ctx is given by the labels attached to it
StartCall(p, in) == Enter(p, in) /\ UNCHANGED <<mem, hist, timers, pkg>>

\* getCounter / ... under a lock that register holds while it calls Register
GetVecUnderRegisterLock(p) ==
    /\ g[p].pc = "get"
    /\ \A q \in Procs : g[q].pc # "register"
    /\ LET c == g[p].call
           cand == [Val1 |-> NewVec(c.kind, c.fq, c.keys, c.opts,
                                    client.constLabels, <<p, g[p].k>>),
                    Val2 |-> c.opts]
           r == LoadOrStore(cache[c.kind], c.fq, cand)
       IN  /\ cache' = [cache EXCEPT ![c.kind] = r.m]
           /\ g' = [g EXCEPT ![p].v = r.v, ![p].loaded = r.loaded,
                             ![p].pc = IF r.loaded THEN AfterGet(c.kind)
                                       ELSE "register"]
    /\ UNCHANGED <<mem, hist, timers, pkg, client, registry, series, ncalls, errCalls, regCalls, sinkDrops>>

\* getCounter / getGauge / getHistogram / getSummary: the candidate family
\* and LoadOrStore
GetVec(p) ==
    /\ g[p].pc = "get"
    /\ LET c == g[p].call
           cand == [Val1 |-> NewVec(c.kind, c.fq, c.keys, c.opts,
                                    client.constLabels, <<p, g[p].k>>),
                    Val2 |-> c.opts]
           r == LoadOrStore(cache[c.kind], c.fq, cand)
       IN  /\ cache' = [cache EXCEPT ![c.kind] = r.m]
           /\ g' = [g EXCEPT ![p].v = r.v, ![p].loaded = r.loaded,
                             ![p].pc = IF r.loaded THEN AfterGet(c.kind)
                                       ELSE "register"]
    /\ UNCHANGED <<mem, hist, timers, pkg, client, registry, series, ncalls, errCalls, regCalls, sinkDrops>>

\* register: c.registry.Register(m)
Register(p) ==
    /\ g[p].pc = "register"
    /\ LET vec == g[p].v.Val1
           err == RegisterResult(registry, vec.fq, vec.valid, vec.dims)
       IN  /\ registry' = RegistryAfter(registry, vec.fq, vec.valid, VecEntry(vec))
           /\ regCalls' = Bump(regCalls, <<vec.kind, vec.fq>>)
           /\ g' = [g EXCEPT ![p].err = err, ![p].regs = @ + 1,
                             ![p].pc = IF err # "ok" THEN "registerErr"
                                       ELSE AfterGet(vec.kind)]
    /\ UNCHANGED <<mem, hist, timers, pkg, client, cache, series, ncalls, errCalls, sinkDrops>>

\* kind + choose.If(dup, "_dup", "")
errKind(kind, err) ==
    ("register_" \o kind) \o (IF isAlreadyRegisteredError(err) THEN "_dup" ELSE "")

\* register, when Register gave an error: the logger and recordErr
RegisterErr(p) ==
    /\ g[p].pc = "registerErr"
    /\ LET kind == errKind(g[p].call.kind, g[p].err)
       IN  Report(p, [g[p] EXCEPT !.pc = AfterGet(g[p].call.kind)], kind, kind)
    /\ UNCHANGED <<mem, hist, timers, pkg, client, cache, series, ncalls, regCalls>>

\* A comparison that finds every config equal to the stored one
ConfigEqualAlways(kind, stored, opts) == TRUE

\* What recordHistogram / recordSummary compare: the stored opts with the
\* config of this call
ConfigEqual(kind, stored, opts) ==
    IF kind = "histogram" THEN SlicesEqual(stored.Buckets, opts.Buckets)
    ELSE MapsEqual(stored.Objectives, opts.Objectives)

MismatchKind(kind) ==
    IF kind = "histogram" THEN "histogram_buckets_mismatch"
    ELSE "summary_objectives_mismatch"

\* recordHistogram / recordSummary: the config check after getHistogram /
\* getSummary
CheckConfig(p) ==
    /\ g[p].pc = "check"
    /\ LET c == g[p].call
           next == [g[p] EXCEPT !.pc = "metric"]
       IN  IF ~ConfigEqual(c.kind, g[p].v.Val2, c.opts)
           THEN Report(p, next, MismatchKind(c.kind), MismatchKind(c.kind))
           ELSE /\ g' = [g EXCEPT ![p] = next]
                /\ UNCHANGED <<registry, errCalls, sinkDrops>>
    /\ UNCHANGED <<mem, hist, timers, pkg, client, cache, series, ncalls, regCalls>>

\* v.GetMetricWith(tags): on an error recordErr, the logger and return; else
\* m.Add / m.Set / m.Observe.  The call returns.
GetMetric(p) ==
    /\ g[p].pc = "metric"
    /\ LET c == g[p].call
           vec == g[p].v.Val1
           done == [g[p] EXCEPT !.pc = "idle"]
       IN  IF GetMetricWithErr(vec, c.tags)
           THEN /\ Report(p, done, "get_" \o c.kind,
                          ("get_" \o c.kind) \o "|GetMetricWithLabelFailed")
                /\ UNCHANGED series
           ELSE /\ series' = SeriesAfter(series, vec, c.tags, c.value)
                /\ g' = [g EXCEPT ![p] = [done EXCEPT !.wrote = @ + 1]]
                /\ UNCHANGED <<registry, errCalls, sinkDrops>>
    /\ UNCHANGED <<mem, hist, timers, pkg, client, cache, ncalls, regCalls>>

Step(p) == GetVec(p) \/ Register(p) \/ RegisterErr(p) \/ CheckConfig(p) \/ GetMetric(p)

(***************************************************************************)
(* The calls the goroutines make                                           *)
(***************************************************************************)
Ctx0 == EmptyLabels
Ctx1 == CtxAddLabels(Ctx0, <<"k1", "v1">>)

B123 == <<1000, 2000, 3000>>
B510 == <<5000, 10000>>
B152025 == <<15 * Millisecond, 20 * Millisecond, 25 * Millisecond>>
O59 == GoMap(FALSE, {<<500, 50>>, <<900, 10>>})

In(op, name, ctx, kvs) == Input(op, name, ctx, kvs, IntV(1), 0, <<>>, NilMap)
InN(op, name, ctx, kvs, n) == Input(op, name, ctx, kvs, IntV(n), 0, <<>>, NilMap)
InCost(op, name, ctx, kvs, ms, buckets) ==
    Input(op, name, ctx, kvs, IntV(0), ms * Millisecond, buckets, NilMap)
InHist(name, ctx, kvs, v, buckets) ==
    Input("Histogram", name, ctx, kvs, FloatV(v), 0, buckets, NilMap)
InSum(name, ctx, kvs, v, objectives) ==
    Input("SummaryObjectives", name, ctx, kvs, FloatV(v), 0, <<>>, objectives)

\* The label sets of the calls: {k1} twice with different values (once from
\* the ctx, once overridden at the call), {k1, k2} and {}
LabelArgs ==
    { [ctx |-> Ctx0, kvs |-> <<"k1", "v1">>],
      [ctx |-> Ctx1, kvs |-> <<"k1", "v2">>],
      [ctx |-> Ctx1, kvs |-> <<"k2", "v1">>],
      [ctx |-> Ctx0, kvs |-> <<>>] }

\* Calls of several kinds on one raw name: a counter with label sets {k1}
\* and {}, and Cost, CostBuckets (with other buckets and labels) and
\* Observe, which all use the Timer name
Menu ==
    { In("Record", S_m, Ctx0, <<"k1", "v1">>),
      InN("RecordN", S_m, Ctx0, <<>>, 2),
      InCost("Cost", S_m, Ctx1, <<>>, 20, <<>>),
      InCost("CostBuckets", S_m, Ctx0, <<>>, 20, B152025),
      InCost("Observe", S_m, Ctx1, <<>>, 20, <<>>) }

Init == InitWith(NoOpts)

Next == \E p \in Procs : (\E in \in Menu : StartCall(p, in)) \/ Step(p)

\* NewClient() and goroutines that make the calls of Menu
Spec == Init /\ [][Next]_vars

\* Calls that fail: Cost, CostBuckets (with other buckets and labels) and
\* Observe, all on the Timer name of one raw name
MenuFail ==
    { InCost("Cost", S_m, Ctx1, <<>>, 20, <<>>),
      InCost("CostBuckets", S_m, Ctx0, <<>>, 20, B152025),
      InCost("Observe", S_m, Ctx1, <<>>, 20, <<>>) }

NextFail == \E p \in Procs : (\E in \in MenuFail : StartCall(p, in)) \/ Step(p)

\* NewClient() and goroutines that make the calls of MenuFail
SpecFail == Init /\ [][NextFail]_vars

\* First-use calls of RecordN on one new name, all with the label keys {k1},
\* with two label values and two deltas
MenuRace ==
    { InN("RecordN", S_m, Ctx0, <<"k1", "v1">>, 1),
      InN("RecordN", S_m, Ctx0, <<"k1", "v1">>, 2),
      InN("RecordN", S_m, Ctx1, <<"k1", "v2">>, 2),
      InN("RecordN", S_m, Ctx1, <<>>, 3) }

\* A goroutine's first and only call
StartFirst(p, in) == g[p].k = 0 /\ StartCall(p, in)

NextRace ==
    \E p \in Procs :
        \/ \E in \in MenuRace : StartFirst(p, in)
        \/ GetVec(p) \/ Register(p) \/ GetMetric(p)

\* NewClient() and goroutines that each make one RecordN call on the same
\* new name
SpecRace == Init /\ [][NextRace]_vars

\* Calls of every kind on one raw name with each of the label sets
MenuLabels ==
    { InN("RecordN", S_m, l.ctx, l.kvs, 2) : l \in LabelArgs }
    \cup { InN("Store", S_m, l.ctx, l.kvs, 3) : l \in LabelArgs }
    \cup { InHist(S_m, l.ctx, l.kvs, 1500, B123) : l \in LabelArgs }
    \cup { InSum(S_m, l.ctx, l.kvs, 1500, O59) : l \in LabelArgs }

\* A call of the kind of the calls made so far
StartSameKind(p, in) ==
    /\ StartCall(p, in)
    /\ \A q \in Procs : g[q].k > 0 => g[q].call.kind = g'[p].call.kind

NextLabels ==
    \E p \in Procs :
        \/ \E in \in MenuLabels : StartSameKind(p, in)
        \/ GetVec(p) \/ Register(p) \/ CheckConfig(p) \/ GetMetric(p)

\* NewClient() and goroutines that call one metric of some kind with
\* different label sets
SpecLabels == Init /\ [][NextLabels]_vars

B124 == <<1000, 2000, 4000>>

\* Histogram-kind calls: Histogram with the bucket lists [1 2 3], [1 2 4] and
\* [5 10] and the label sets {k1} and {}, and Cost, CostBuckets and a Timer
\* stop (both with the client's bucket list) on the Timer name
MenuHistogram ==
    { InHist(S_m, Ctx1, <<>>, 1500, B123),
      InHist(S_m, Ctx1, <<>>, 2500, B124),
      InHist(S_m, Ctx0, <<>>, 7000, B510),
      InCost("Cost", S_m, Ctx1, <<>>, 20, <<>>),
      InCost("CostBuckets", S_m, Ctx1, <<>>, 20, B152025),
      InCost("Timer", S_m, Ctx1, <<>>, 30, <<>>) }

NextHistogram ==
    \E p \in Procs :
        \/ \E in \in MenuHistogram : StartCall(p, in)
        \/ GetVec(p) \/ Register(p) \/ CheckConfig(p) \/ GetMetric(p)

\* NewClient() and goroutines that make histogram-kind calls
SpecHistogram == Init /\ [][NextHistogram]_vars

O5 == GoMap(FALSE, {<<500, 50>>})

\* Summary-kind calls: Summary (the client's objectives, an empty map),
\* SummaryObjectives with nil, with two maps and with the label sets {k1}
\* and {}, and an Observe stop on the Timer name
MenuSummary ==
    { Input("Summary", S_m, Ctx1, <<>>, IntV(2), 0, <<>>, NilMap),
      InSum(S_m, Ctx1, <<>>, 1500, NilMap),
      InSum(S_m, Ctx1, <<>>, 1500, O59),
      InSum(S_m, Ctx1, <<>>, 2500, O5),
      InSum(S_m, Ctx0, <<>>, 1500, O59),
      InCost("Observe", S_m, Ctx1, <<>>, 20, <<>>) }

NextSummary ==
    \E p \in Procs :
        \/ \E in \in MenuSummary : StartCall(p, in)
        \/ GetVec(p) \/ Register(p) \/ CheckConfig(p) \/ GetMetric(p)

\* NewClient() and goroutines that make summary-kind calls
SpecSummary == Init /\ [][NextSummary]_vars

B051015 == <<500, 1000, 1500>>

\* The calls of TestRegister, a counter call with the label keys {k1} and
\* one with a help text
MenuConflict ==
    { In("Record", S_m, Ctx0, <<>>),
      In("Record", S_m, Ctx0, <<"k1", "v1">>),
      WithDesc(In("Record", S_m, Ctx0, <<>>), "d"),
      InN("Store", S_m, Ctx0, <<>>, 1),
      InHist(S_m, Ctx0, <<>>, 1000, B051015),
      Input("Summary", S_m, Ctx0, <<>>, IntV(1), 0, <<>>, NilMap) }

\* The names somebody else registered before the client was made
ConflictNames ==
    { buildFQName(<<>>, <<>>, S_m, DefaultNames.Counter),
      buildFQName(<<>>, <<>>, S_m, DefaultNames.Gauge),
      buildFQName(<<>>, <<>>, S_m, DefaultNames.Histogram),
      buildFQName(<<>>, <<>>, S_m, DefaultNames.Summary) }

\* NewClient(WithRegistry(registry)) on a registry that holds a collector
\* under each of ConflictNames
InitConflict == InitWith([NoOpts EXCEPT !.registered = ConflictNames])

NextConflict ==
    \E p \in Procs : (\E in \in MenuConflict : StartCall(p, in)) \/ Step(p)

SpecConflict == InitConflict /\ [][NextConflict]_vars

(***************************************************************************)
(* Contexts: callers that derive contexts, read their labels, write to the *)
(* maps they get back, and record with them                                *)
(***************************************************************************)
\* A call on a context: the operation, the context, the pairs and what came
\* back (a context or a map object)
CtxOp(op, c, kvs, out) == [op |-> op, ctx |-> c, kvs |-> kvs, out |-> out]

\* The pairs given to CtxAddLabels: one, one key twice, and the odd sequence
\* of TestCtx
MenuAdd ==
    { <<"k1", "v1">>, <<"k1", "v1", "k1", "v2">>, <<"k1", "v2", "k2">> }

\* The pairs given to Record: none, and an odd sequence
MenuPairs == { <<>>, <<"k1", "v3", "k3">> }

\* The goroutine whose program works with contexts
Caller == 1

\* The caller's program is sequential: it takes its next step when its
\* recording call has returned
CallerIdle ==
    Len(hist.log) < MaxCtxOps /\ \A p \in Procs : g[p].pc = "idle"

\* The contexts and the map objects there can be; those there are
CtxIds == 1..(MaxCtxOps + 1)
MapIds == 1..MaxCtxOps
IsCtx(c) == c <= Len(mem.ctxs)

\* ctx2 := CtxAddLabels(ctx, kvs...)
AddLabels(c, kvs) ==
    /\ CallerIdle /\ IsCtx(c)
    /\ LET r == CtxAddLabelsRef(mem, c, kvs)
       IN  /\ mem' = r.mem
           /\ hist' = [hist EXCEPT
                         !.born = Append(@, LabelsOf(r.mem, r.ctx)),
                         !.log = Append(@, CtxOp("CtxAddLabels", c, kvs, r.ctx))]
    /\ UNCHANGED <<timers, pkg, client, registry, cache, series, g, ncalls, errCalls,
                   regCalls, sinkDrops>>

\* m := CtxGetLabels(ctx): the caller keeps the map it got
GetLabels(c) ==
    /\ CallerIdle /\ IsCtx(c)
    /\ LET r == CtxGetLabelsRef(mem, c)
       IN  /\ mem' = [r.mem EXCEPT !.held = @ \cup {r.ref}]
           /\ hist' = [hist EXCEPT
                         !.log = Append(@, CtxOp("CtxGetLabels", c, <<>>, r.ref)),
                         !.from = [x \in DOMAIN @ \cup {r.ref} |->
                                     IF x = r.ref THEN c ELSE @[x]]]
    /\ UNCHANGED <<timers, pkg, client, registry, cache, series, g, ncalls, errCalls,
                   regCalls, sinkDrops>>

\* m[k] = v by the caller, on a map it got from CtxGetLabels
Mutate(ref, k, v) ==
    /\ CallerIdle
    /\ ref \in mem.held
    /\ mem' = [mem EXCEPT !.maps[ref] = MapPut(@, k, v)]
    /\ hist' = [hist EXCEPT
                  !.log = Append(@, CtxOp("put", hist.from[ref], <<k, v>>, ref))]
    /\ UNCHANGED <<timers, pkg, client, registry, cache, series, g, ncalls, errCalls,
                   regCalls, sinkDrops>>

\* c.Record(ctx, "m", "", kvs...) with a context of the heap: tags reads the
\* labels of ctx and writes the pairs to its copy of them
RecordCtx(p, c, kvs) ==
    /\ CallerIdle /\ IsCtx(c)
    /\ Enter(p, In("Record", S_m, LabelsOf(mem, c), kvs))
    /\ LET r == tagsRef(mem, c, kvs)
       IN  /\ mem' = Release(r.mem, r.ref)
           /\ hist' = [hist EXCEPT !.log = Append(@, CtxOp("tags", c, kvs, 0))]
    /\ UNCHANGED <<timers, pkg>>

NextCtx ==
    \/ \E c \in CtxIds :
          \/ \E kvs \in MenuAdd : AddLabels(c, kvs)
          \/ GetLabels(c)
          \/ \E kvs \in MenuPairs : RecordCtx(Caller, c, kvs)
    \/ \E ref \in MapIds : \E k \in {"k1", "k3"} : Mutate(ref, k, "x")
    \/ \E p \in Procs : GetVec(p) \/ Register(p) \/ GetMetric(p)

\* NewClient() and callers that derive contexts from context.Background(),
\* read and write their labels and record a counter with them
SpecCtx == Init /\ [][NextCtx]_vars

(***************************************************************************)
(* Properties                                                              *)
(***************************************************************************)
Count(f, e) == IF e \in DOMAIN f THEN f[e] ELSE 0

\* Goroutine p has got its family from the cache in the call it is in, or in
\* the last call it made
HasVec(p) == g[p].k > 0 /\ g[p].pc # "get"

\* The candidate of p's call is the family it got
IsWinner(p) == HasVec(p) /\ g[p].v.Val1.id = <<p, g[p].k>>

\* C1: for each kind and fully-qualified name, whatever the interleaving,
\* one caller's LoadOrStore stores the family and only that caller calls
\* Register for it, exactly once; every other caller gets the stored family
\* and not its own candidate.
C1_OneWinnerRegistersOnce ==
    /\ \A p \in Procs : HasVec(p) =>
          /\ g[p].call.fq \in DOMAIN cache[g[p].call.kind]
          /\ g[p].v = cache[g[p].call.kind][g[p].call.fq]
          /\ g[p].loaded = ~IsWinner(p)
          /\ g[p].regs = IF IsWinner(p) /\ g[p].pc # "register" THEN 1 ELSE 0
    /\ \A k \in CacheKinds : \A n \in DOMAIN cache[k] :
          LET id == cache[k][n].Val1.id
              pending == g[id[1]].k = id[2] /\ g[id[1]].pc = "register"
          IN  Count(regCalls, <<k, n>>) = IF pending THEN 0 ELSE 1
    /\ \A e \in DOMAIN regCalls : e[2] \in DOMAIN cache[e[1]]

\* Two goroutines are in calls on the same family at once, the one that
\* stored it and one that loaded it, and Register has been called for it
C1_Witness ==
    \E p, q \in Procs :
        /\ p # q /\ HasVec(p) /\ HasVec(q)
        /\ g[p].pc # "idle" /\ g[q].pc # "idle"
        /\ g[p].call.kind = g[q].call.kind /\ g[p].call.fq = g[q].call.fq
        /\ IsWinner(p) /\ g[q].loaded
        /\ Count(regCalls, <<g[p].call.kind, g[p].call.fq>>) = 1

\* C4: each per-kind cache is append-only and each entry immutable: a name
\* that is present stays present with the same family object, the same label
\* keys and the same stored config, whatever a later call asks for.
C4_CacheAppendOnly ==
    [][\A k \in CacheKinds : \A n \in DOMAIN cache[k] :
          n \in DOMAIN cache'[k] /\ cache'[k][n] = cache[k][n]]_vars

\* A call has returned that asked for other label keys and another config
\* than the family stored under its name has
C4_Witness ==
    \E p \in Procs :
        /\ HasVec(p) /\ g[p].pc = "idle"
        /\ g[p].call.opts # cache[g[p].call.kind][g[p].call.fq].Val2
        /\ g[p].call.keys # cache[g[p].call.kind][g[p].call.fq].Val1.keys

RECURSIVE SumOver(_, _)
\* The sum of f[x] over the x in S
SumOver(S, f) ==
    IF S = {} THEN 0
    ELSE LET x == CHOOSE y \in S : TRUE IN f[x] + SumOver(S \ {x}, f)

AllReturned == \A p \in Procs : g[p].k = 1 /\ g[p].pc = "idle"

\* C2: when N goroutines race on the first use of a new counter with the
\* same label keys, then once all N calls have returned Register has been
\* called once, the registry holds the stored family, and every series of
\* that family holds the sum of the deltas recorded with its label values:
\* no observation is lost.
C2_RaceLosesNothing ==
    AllReturned =>
        LET fq == g[1].call.fq
            fam == cache["counter"][fq].Val1
        IN  /\ Count(regCalls, <<"counter", fq>>) = 1
            /\ registry[fq] = VecEntry(fam)
            /\ \A p \in Procs : g[p].wrote = 1 /\ g[p].reported = <<>>
            /\ DOMAIN series = {fam.id}
            /\ DOMAIN series[fam.id] = {g[p].call.tags : p \in Procs}
            /\ \A t \in DOMAIN series[fam.id] :
                  series[fam.id][t].sum =
                      SumOver({p \in Procs : g[p].call.tags = t},
                              [p \in Procs |-> g[p].call.value])

\* All N calls have returned, with different deltas into one series
C2_Witness ==
    /\ AllReturned
    /\ \A p, q \in Procs : g[p].call.tags = g[q].call.tags
    /\ \E p, q \in Procs : g[p].call.value # g[q].call.value
    /\ \E p \in Procs : g[p].loaded

\* The family stored under the name of p's call
Stored(p) == cache[g[p].call.kind][g[p].call.fq]

\* C3: for every kind, once a family is stored with label keys K, a call on
\* its name whose keys differ from K as a set writes nothing and reports one
\* get_<kind> error, and a call whose keys equal K writes its observation
\* into the stored family, whatever its label values.
C3_LabelSchemaLockIn ==
    [][\A p \in Procs :
          (g[p].pc = "metric" /\ g'[p].pc = "idle") =>
              LET c == g[p].call
                  e == <<c.fq, "get_" \o c.kind>>
              IN  IF c.keys = Stored(p).Val1.keys
                  THEN /\ series' = SeriesAfter(series, Stored(p).Val1, c.tags, c.value)
                       /\ c.tags \in DOMAIN series'[Stored(p).Val1.id]
                       /\ errCalls' = errCalls
                       /\ g'[p].wrote = 1
                  ELSE /\ series' = series
                       /\ Count(errCalls', e) = Count(errCalls, e) + 1
                       /\ g'[p].reported = Append(g[p].reported, e[2])
                       /\ g'[p].wrote = 0]_vars

\* A family holds two series with the same label keys and different values,
\* and calls with an extra key and with no keys have returned without writing
C3_Witness ==
    \E k \in CacheKinds : \E n \in DOMAIN cache[k] :
        LET fam == cache[k][n].Val1
        IN  /\ fam.keys = {"k1"}
            /\ fam.id \in DOMAIN series
            /\ Cardinality(DOMAIN series[fam.id]) = 2
            /\ \E p \in Procs :
                  /\ g[p].pc = "idle" /\ g[p].k > 0 /\ g[p].wrote = 0
                  /\ g[p].call.keys \in {{}, {"k1", "k2"}}
                  /\ g[p].reported = <<"get_" \o k>>

\* Goroutine p takes the config check of its call in this step
Checks(p) == g[p].pc = "check" /\ g'[p].pc = "metric"

\* Goroutine p takes the last step of its call in this step
Returns(p) == g[p].pc = "metric" /\ g'[p].pc = "idle"

\* C5: once a histogram family is stored with bucket list B, a call on its
\* name with another bucket list reports histogram_buckets_mismatch, a call
\* with a list equal to B reports nothing; either way a call with the
\* family's label keys is written into the stored family, counted in the
\* buckets of B, and the stored list stays B.
C5_HistogramConfigLockIn ==
    [][\A p \in Procs :
          LET c == g[p].call
              e == <<c.fq, "histogram_buckets_mismatch">>
              B == Stored(p).Val2.Buckets
          IN  /\ Checks(p) =>
                    /\ Count(errCalls', e) =
                           Count(errCalls, e) + (IF c.opts.Buckets # B THEN 1 ELSE 0)
                    /\ g'[p].reported =
                           g[p].reported \o (IF c.opts.Buckets # B THEN <<e[2]>> ELSE <<>>)
                    /\ Stored(p)' = Stored(p)
              /\ (Returns(p) /\ c.keys = Stored(p).Val1.keys) =>
                    /\ g'[p].wrote = 1
                    /\ Stored(p).Val1.cfg.Buckets = B
                    /\ series'[Stored(p).Val1.id][c.tags].count =
                          1 + (IF Stored(p).Val1.id \in DOMAIN series
                                  /\ c.tags \in DOMAIN series[Stored(p).Val1.id]
                               THEN series[Stored(p).Val1.id][c.tags].count ELSE 0)
                    /\ Len(series'[Stored(p).Val1.id][c.tags].buckets) =
                          Len(IF Len(B) = 0 THEN DefBuckets ELSE B)
                    /\ Stored(p)' = Stored(p)]_vars

\* A call with another bucket list than the stored one has reported the
\* mismatch and has been written; a call of another operation with a list
\* equal to the stored one has reported nothing
C5_Witness ==
    \E p, q \in Procs :
        /\ g[p].pc = "idle" /\ g[p].k > 0 /\ g[q].pc = "idle" /\ g[q].k > 0
        /\ g[p].call.opts.Buckets # Stored(p).Val2.Buckets
        /\ g[p].reported = <<"histogram_buckets_mismatch">> /\ g[p].wrote = 1
        /\ g[q].loaded /\ g[q].reported = <<>> /\ g[q].wrote = 1
        /\ g[q].call.fq = g[p].call.fq /\ g[q].call.op # g[p].call.op

\* C6: once a summary family is stored with objectives O, a call on its
\* name with other objectives reports summary_objectives_mismatch, and a call
\* with the same pairs reports nothing, a nil map and an empty one being the
\* same; either way a call with the family's label keys is written into the
\* stored family, which was made with O, and the stored objectives stay O.
C6_SummaryConfigLockIn ==
    [][\A p \in Procs :
          LET c == g[p].call
              e == <<c.fq, "summary_objectives_mismatch">>
              O == Stored(p).Val2.Objectives
              differ == c.opts.Objectives.pairs # O.pairs
          IN  /\ Checks(p) =>
                    /\ Count(errCalls', e) = Count(errCalls, e) + (IF differ THEN 1 ELSE 0)
                    /\ g'[p].reported =
                           g[p].reported \o (IF differ THEN <<e[2]>> ELSE <<>>)
                    /\ Stored(p)' = Stored(p)
              /\ (Returns(p) /\ c.keys = Stored(p).Val1.keys) =>
                    /\ g'[p].wrote = 1
                    /\ Stored(p).Val1.cfg.Objectives = O
                    /\ series'[Stored(p).Val1.id][c.tags].count =
                          1 + (IF Stored(p).Val1.id \in DOMAIN series
                                  /\ c.tags \in DOMAIN series[Stored(p).Val1.id]
                               THEN series[Stored(p).Val1.id][c.tags].count ELSE 0)
                    /\ Stored(p)' = Stored(p)]_vars

\* A call with other objectives than the stored ones has reported the
\* mismatch and has been written, and a call with a nil map on a family
\* stored with an empty one (or the reverse) has reported nothing
C6_Witness ==
    \E p, q \in Procs :
        /\ g[p].pc = "idle" /\ g[p].k > 0 /\ g[q].pc = "idle" /\ g[q].k > 0
        /\ g[p].call.opts.Objectives.pairs # Stored(p).Val2.Objectives.pairs
        /\ g[p].reported = <<"summary_objectives_mismatch">> /\ g[p].wrote = 1
        /\ g[q].loaded /\ g[q].reported = <<>> /\ g[q].wrote = 1
        /\ g[q].call.fq = g[p].call.fq
        /\ g[q].call.opts.Objectives.isNil # Stored(q).Val2.Objectives.isNil

Returned(p) == g[p].k > 0 /\ g[p].pc = "idle"

\* The registry holds the family that p's call made
Registered(p) ==
    /\ g[p].call.fq \in DOMAIN registry
    /\ registry[g[p].call.fq] = VecEntry(Stored(p).Val1)
    /\ Stored(p).Val1.id = <<p, g[p].k>>

\* The failures of p's call, read from the cache and the registry: its
\* family was stored and the registry did not take it, its config is not the
\* stored one, its label keys are not the family's
Failures(p) ==
    LET c == g[p].call
        f == Stored(p).Val1
    IN  (IF IsWinner(p) /\ ~Registered(p)
         THEN <<("register_" \o c.kind) \o
                 (IF /\ f.valid /\ c.fq \in DOMAIN registry
                     /\ registry[c.fq].dims = f.dims
                  THEN "_dup" ELSE "")>>
         ELSE <<>>)
        \o (IF c.kind = "histogram" /\ c.opts.Buckets # Stored(p).Val2.Buckets
            THEN <<"histogram_buckets_mismatch">> ELSE <<>>)
        \o (IF c.kind = "summary"
               /\ c.opts.Objectives.pairs # Stored(p).Val2.Objectives.pairs
            THEN <<"summary_objectives_mismatch">> ELSE <<>>)
        \o (IF c.keys # Stored(p).Val1.keys THEN <<"get_" \o c.kind>> ELSE <<>>)

\* Goroutine p is in a call that has met a failure and has not returned
InFailure(p) ==
    \/ g[p].pc = "registerErr"
    \/ g[p].pc # "idle" /\ g[p].reported # <<>>

\* C7: a call reports each failure it meets (a rejected registration, a
\* config drift, a label mismatch) once to recordErr and once to the logger,
\* and returns: a call that has met a failure can always take its next step.
C7_FailSilent ==
    \A p \in Procs :
        /\ InFailure(p) => ENABLED Step(p)
        /\ Returned(p) =>
              /\ g[p].reported = Failures(p)
              /\ Len(g[p].logged) = Len(g[p].reported)
              /\ \A i \in 1..Len(g[p].logged) :
                    g[p].logged[i] \in
                        {g[p].reported[i],
                         g[p].reported[i] \o "|GetMetricWithLabelFailed"}
              /\ \A i \in 1..Len(g[p].reported) :
                    Count(errCalls, <<g[p].call.fq, g[p].reported[i]>>) >= 1

\* Calls have returned after a rejected registration and after a config
\* drift together with a label mismatch
C7_Witness ==
    \E p, q \in Procs :
        /\ Returned(p) /\ Returned(q)
        /\ g[p].reported = <<"register_summary_dup">>
        /\ g[q].reported = <<"histogram_buckets_mismatch", "get_histogram">>

\* The value the registry shows for the error counter's series (name, kind)
Exposed(e) ==
    IF /\ ErrName(client) \in DOMAIN registry
       /\ registry[ErrName(client)].type = "errcounter"
       /\ registry[ErrName(client)].labels = e
    THEN registry[ErrName(client)].value ELSE 0

\* C8: the registry shows, for every (name, kind), as many errors as
\* recordErr was called with.
C8_SinkCountsEveryError ==
    \A e \in DOMAIN errCalls : Exposed(e) = errCalls[e]

\* The registry held a collector of somebody else under the name of p's call
HeldOutside(p) ==
    /\ g[p].call.fq \in DOMAIN registry
    /\ registry[g[p].call.fq] = External

\* C9: when the registry holds a collector registered outside the cache
\* under the name, the first call on the name reports register_<kind>_dup,
\* keeps its candidate in the cache and writes into it; later calls reuse
\* the cached family and do not register again.
C9_ConflictReportsDup ==
    \A p \in Procs :
        (Returned(p) /\ HeldOutside(p)) =>
            IF IsWinner(p)
            THEN /\ g[p].reported = <<("register_" \o g[p].call.kind) \o "_dup">>
                 /\ g[p].regs = 1
                 /\ g[p].wrote = 1
                 /\ g[p].call.tags \in DOMAIN series[<<p, g[p].k>>]
            ELSE /\ g[p].regs = 0
                 /\ g[p].v = Stored(p)
                 /\ Count(regCalls, <<g[p].call.kind, g[p].call.fq>>) <= 1

\* The number of recordErr calls so far
TotalErrCalls(f) == SumOver(DOMAIN f, f)

\* C10: recordErr never re-enters the error path: a step that reports a
\* failure calls recordErr once and the logger once, also when the error
\* counter's own registration fails and is dropped, and recordErr is never
\* called for the error counter itself.
C10_RecordErrNeverReenters ==
    [][/\ TotalErrCalls(errCalls') <= TotalErrCalls(errCalls) + 1
       /\ sinkDrops' <= sinkDrops + 1
       /\ sinkDrops' > sinkDrops => TotalErrCalls(errCalls') = TotalErrCalls(errCalls) + 1
       /\ \A p \in Procs :
             g'[p].k = g[p].k =>
                /\ Len(g'[p].logged) <= Len(g[p].logged) + 1
                /\ Len(g'[p].reported) <= Len(g[p].reported) + 1
       /\ \A e \in DOMAIN errCalls' : e[1] # ErrName(client)]_vars

\* The error counter's own registration has failed and was dropped, in a
\* call that has returned after reporting two failures
C10_Witness ==
    /\ sinkDrops >= 2
    /\ \E p \in Procs : Returned(p) /\ Len(g[p].reported) = 2

\* The keys of the pairs of kvs, and the value of the last pair with key k
PairKeys(kvs) == {kvs[2 * j - 1] : j \in 1..(Len(kvs) \div 2)}
LastValue(kvs, k) ==
    LET J == {j \in 1..(Len(kvs) \div 2) : kvs[2 * j - 1] = k}
    IN  kvs[2 * (CHOOSE j \in J : \A i \in J : i <= j)]

\* The labels base with the pairs of kvs over them
Overridden(base, kvs) ==
    [k \in DOMAIN base \cup PairKeys(kvs) |->
        IF k \in PairKeys(kvs) THEN LastValue(kvs, k) ELSE base[k]]

\* The caller's last step with contexts, and whether this step is one
LastOp(h) == h.log[Len(h.log)]
CtxStep(op) == Len(hist'.log) = Len(hist.log) + 1 /\ LastOp(hist').op = op

\* C11: CtxAddLabels gives a new context whose labels are those of ctx with
\* the pairs over them, the last pair of a key winning; the labels of ctx
\* and of every other context there is are as before.
C11_AddLabelsDerives ==
    [][CtxStep("CtxAddLabels") =>
          LET op == LastOp(hist')
          IN  /\ op.out = Len(mem.ctxs) + 1 /\ Len(mem'.ctxs) = op.out
              /\ LabelsOf(mem', op.out) = Overridden(LabelsOf(mem, op.ctx), op.kvs)
              /\ \A c \in 1..Len(mem.ctxs) : LabelsOf(mem', c) = LabelsOf(mem, c)]_vars

\* A context with k1=v1 has got a child with k1=v2 and still has k1=v1
C11_Witness ==
    /\ hist.log # <<>> /\ LastOp(hist).op = "CtxAddLabels"
    /\ LastOp(hist).ctx # Background
    /\ LabelsOf(mem, LastOp(hist).ctx) = [k \in {"k1"} |-> "v1"]
    /\ LabelsOf(mem, LastOp(hist).out)["k1"] = "v2"

\* C12: CtxGetLabels returns a map of its own with the labels of ctx (none
\* for a context without labels): whatever is written to the maps it
\* returned, every context has the labels it was made with, a later
\* CtxGetLabels returns them, and a recording call uses them.
C12_CloneOnRead ==
    /\ \A c \in 1..Len(mem.ctxs) :
          /\ LabelsOf(mem, c) = hist.born[c]
          /\ mem.ctxs[c] \notin mem.held
    /\ hist.log # <<>> =>
          LET op == LastOp(hist)
          IN  /\ op.op = "CtxGetLabels" => mem.maps[op.out] = hist.born[op.ctx]
              /\ op.op = "tags" =>
                    \A k \in DOMAIN hist.born[op.ctx] \ PairKeys(op.kvs) :
                        /\ k \in DOMAIN g[Caller].call.tags
                        /\ g[Caller].call.tags[k] = hist.born[op.ctx][k]

\* The caller has written to a map it got from a context with labels, and
\* has read the labels of that context again
C12_Witness ==
    /\ hist.log # <<>> /\ LastOp(hist).op \in {"CtxGetLabels", "tags"}
    /\ hist.born[LastOp(hist).ctx] # EmptyLabels
    /\ \E ref \in mem.held :
          /\ ref # LastOp(hist).out
          /\ hist.from[ref] = LastOp(hist).ctx
          /\ mem.maps[ref] # hist.born[LastOp(hist).ctx]

RECURSIVE ApplyPairs(_, _, _)
\* The labels base after the first n pairs of kvs, one after the other
ApplyPairs(base, kvs, n) ==
    IF n = 0 THEN base
    ELSE MapPut(ApplyPairs(base, kvs, n - 1), kvs[2 * n - 1], kvs[2 * n])

\* The values of a label map
Values(m) == {m[k] : k \in DOMAIN m}

\* C13: CtxAddLabels and the recording calls read kvs as consecutive pairs:
\* of n elements exactly n / 2 (rounded down) pairs are applied, and the last
\* element of an odd sequence becomes neither a key nor a value.
C13_PairingRule ==
    [][(CtxStep("CtxAddLabels") \/ CtxStep("tags")) =>
          LET op == LastOp(hist')
              n == Len(op.kvs)
              base == LabelsOf(mem, op.ctx)
              R == IF op.op = "tags" THEN g'[Caller].call.tags
                   ELSE LabelsOf(mem', op.out)
          IN  /\ R = ApplyPairs(base, op.kvs, n \div 2)
              /\ n % 2 = 1 =>
                    /\ op.kvs[n] \in DOMAIN R =>
                          op.kvs[n] \in DOMAIN base \cup PairKeys(op.kvs)
                    /\ op.kvs[n] \in Values(R) =>
                          op.kvs[n] \in Values(base)
                              \cup {op.kvs[2 * j] : j \in 1..(n \div 2)}]_vars

\* A recording call and then CtxAddLabels have been given odd sequences
C13_Witness ==
    /\ Len(hist.log) >= 2
    /\ LastOp(hist).op = "CtxAddLabels" /\ Len(LastOp(hist).kvs) = 3
    /\ \E i \in 1..(Len(hist.log) - 1) :
          hist.log[i].op = "tags" /\ Len(hist.log[i].kvs) = 3

\* C14: a recording call uses the labels of its context with the call's
\* pairs over them on equal keys, and leaves the labels of every context as
\* they were: a call without pairs uses the labels of the context.
C14_OverrideForOneCall ==
    [][CtxStep("tags") =>
          LET op == LastOp(hist')
              ambient == hist.born[op.ctx]
          IN  /\ g'[Caller].call.tags = Overridden(ambient, op.kvs)
              /\ g'[Caller].call.keys = DOMAIN ambient \cup PairKeys(op.kvs)
              /\ op.kvs = <<>> => g'[Caller].call.tags = ambient
              /\ Len(mem'.ctxs) = Len(mem.ctxs)
              /\ \A c \in 1..Len(mem.ctxs) : LabelsOf(mem', c) = LabelsOf(mem, c)]_vars

\* A call has overridden k1 of its context, and a later call with the same
\* context and no pairs has used the value of the context
C14_Witness ==
    /\ Len(hist.log) >= 2
    /\ LastOp(hist).op = "tags" /\ LastOp(hist).kvs = <<>>
    /\ "k1" \in DOMAIN hist.born[LastOp(hist).ctx]
    /\ g[Caller].call.tags = hist.born[LastOp(hist).ctx]
    /\ \E i \in 1..(Len(hist.log) - 1) :
          /\ hist.log[i].op = "tags" /\ hist.log[i].ctx = LastOp(hist).ctx
          /\ "k1" \in PairKeys(hist.log[i].kvs)

\* NewClient(WithNamespace(n), WithSubsystem(s)) with each option present or
\* not, and goroutines that call one metric of each kind
NameOpts ==
    { [NoOpts EXCEPT !.namespace = n, !.subsystem = s] :
        n \in {<<>>, S_ns}, s \in {<<>>, S_sub} }
InitNames == \E o \in NameOpts : InitWith(o)
MenuNames ==
    { In("Record", S_reqs, Ctx0, <<>>),
      InN("Store", S_m, Ctx0, <<>>, 3),
      InCost("Cost", S_reqs, Ctx0, <<>>, 20, <<>>),
      InSum(S_m, Ctx0, <<>>, 1500, O59) }
NextNames ==
    \E p \in Procs :
        \/ \E in \in MenuNames : StartCall(p, in)
        \/ GetVec(p) \/ Register(p) \/ CheckConfig(p) \/ GetMetric(p)
SpecNames == InitNames /\ [][NextNames]_vars

\* The default prefix and suffix of the names of a call
AppendOf(op) ==
    CASE op \in {"Record", "RecordN"} -> NameAppend(S_counter, <<>>)
      [] op = "Store" -> NameAppend(S_gauge, <<>>)
      [] op \in {"Cost", "CostBuckets", "Timer", "Observe"} ->
             NameAppend(S_timer, S_seconds)
      [] op = "Histogram" -> NameAppend(S_histogram, <<>>)
      [] op \in {"Summary", "SummaryObjectives"} -> NameAppend(S_summary, <<>>)

\* namespace, subsystem and the name of the kind, each followed by what comes
\* after it only when it is not empty
ExpectedFQName(namespace, subsystem, raw, na) ==
    (IF namespace = <<>> THEN <<>> ELSE namespace \o <<58>>)
        \o (IF subsystem = <<>> THEN <<>> ELSE subsystem \o <<58>>)
        \o na.Prefix \o EscapeName(raw) \o na.Suffix

\* "ns:sub:counter:reqs", "ns:counter:reqs"
S_ns_sub_counter_reqs ==
    <<110, 115, 58, 115, 117, 98, 58, 99, 111, 117, 110, 116, 101, 114, 58,
      114, 101, 113, 115>>
S_ns_counter_reqs ==
    <<110, 115, 58, 99, 111, 117, 110, 116, 101, 114, 58, 114, 101, 113, 115>>

\* C15: the name a call uses is the ':'-join of the members of [namespace,
\* subsystem, prefix + escape(name) + suffix] that are not empty: with "ns"
\* and "sub" Record(ctx, "reqs", ...) uses "ns:sub:counter:reqs", and an empty
\* namespace or subsystem gives neither text nor a separator.
C15_FullyQualifiedName ==
    \A p \in Procs : g[p].k > 0 =>
        /\ \E in \in MenuNames :
              /\ in.op = g[p].call.op
              /\ g[p].call.fq = ExpectedFQName(client.namespace, client.subsystem,
                                               in.name, AppendOf(in.op))
        /\ g[p].call.op = "Record" /\ client.namespace = S_ns
              /\ client.subsystem = S_sub
              => g[p].call.fq = S_ns_sub_counter_reqs
        /\ g[p].call.fq[1] # 58
        /\ \A i \in 1..(Len(g[p].call.fq) - 1) :
              ~(g[p].call.fq[i] = 58 /\ g[p].call.fq[i + 1] = 58)

\* A client with a namespace and no subsystem has registered and written
\* the counter of Record(ctx, "reqs", "")
C15_Witness ==
    /\ client.namespace = S_ns /\ client.subsystem = <<>>
    /\ \E p \in Procs :
          /\ g[p].k > 0 /\ g[p].pc = "idle" /\ g[p].wrote = 1
          /\ g[p].call.op = "Record"
          /\ g[p].call.fq = S_ns_counter_reqs
          /\ S_ns_counter_reqs \in DOMAIN registry

(***************************************************************************)
(* Raw names and their escaping                                            *)
(***************************************************************************)
\* 'a', '0', '_', ':', ' ', U+4E2D
Alphabet == {97, 48, 95, 58, 32, 20013}

\* "abc", "a_b:c", "0a_b:c", "abc" U+0020 U+4E2D U+6587, U+603B U+91CF: the
\* names of TestEscapeName; "0", "U___30_"
S_abc == <<97, 98, 99>>
S_a_b_c == <<97, 95, 98, 58, 99>>
S_0a_b_c == <<48, 97, 95, 98, 58, 99>>
S_abc_zhongwen == <<97, 98, 99, 32, 20013, 25991>>
S_zongliang == <<24635, 37327>>
S_0 == <<48>>
S_U_30 == <<85, 95, 95, 95, 51, 48, 95>>
Examples ==
    {<<>>, S_abc, S_a_b_c, S_0a_b_c, S_abc_zhongwen, S_zongliang, S_0, S_U_30}

\* The raw names of the calls
Names == UNION {[1..n -> Alphabet] : n \in 0..MaxLen} \cup Examples

\* c.Record(ctx, raw, ""): the caller's first call has any of Names, a
\* later one a name of Examples
RecordName(p, raw) ==
    /\ \A q \in Procs : g[q].pc = "idle"
    /\ hist.log = <<>> \/ raw \in Examples
    /\ Enter(p, In("Record", raw, Ctx0, <<>>))
    /\ hist' = [hist EXCEPT !.log =
                  Append(@, [op |-> "Record", name |-> raw, fq |-> g'[p].call.fq])]
    /\ UNCHANGED <<mem, timers, pkg>>

NextEscape ==
    \/ \E raw \in Names : RecordName(Caller, raw)
    \/ \E p \in Procs : GetVec(p) \/ Register(p) \/ GetMetric(p)

\* NewClient() and a caller that records counters of several raw names
SpecEscape == Init /\ [][NextEscape]_vars

\* The name a counter call used without "counter:"
EscapedIn(fq) == SubSeq(fq, Len(S_counter) + 1, Len(fq))

\* ^[A-Za-z_:][A-Za-z0-9_:]*$
IsNameStart(c) ==
    (65 <= c /\ c <= 90) \/ (97 <= c /\ c <= 122) \/ c = 95 \/ c = 58
IsNameChar(c) == IsNameStart(c) \/ (48 <= c /\ c <= 57)
MatchesSafePattern(s) ==
    /\ s # <<>> /\ IsNameStart(s[1])
    /\ \A i \in 2..Len(s) : IsNameChar(s[i])

\* '_' + lowercase hex code point + '_', digit by digit
Pow16(n) == IF n = 0 THEN 1 ELSE IF n = 1 THEN 16 ELSE IF n = 2 THEN 256 ELSE 4096
HexLen(c) == IF c < 16 THEN 1 ELSE IF c < 256 THEN 2 ELSE IF c < 4096 THEN 3 ELSE 4
HexWritten(c) ==
    <<95>> \o [i \in 1..HexLen(c) |->
                 LET d == (c \div Pow16(HexLen(c) - i)) % 16
                 IN  IF d < 10 THEN 48 + d ELSE 87 + d] \o <<95>>

RECURSIVE WrittenUpTo(_, _)
\* The first n characters of s as an escaped name has them
WrittenUpTo(s, n) ==
    IF n = 0 THEN <<>>
    ELSE WrittenUpTo(s, n - 1)
            \o (IF IsNameChar(s[n]) /\ (n > 1 \/ IsNameStart(s[n]))
                THEN <<s[n]>> ELSE HexWritten(s[n]))

\* "U___30_a_b:c", "U__abc_20__4e2d__6587_"
S_U_30_a_b_c == <<85, 95, 95, 95, 51, 48, 95, 97, 95, 98, 58, 99>>
S_U_abc_20_4e2d_6587 ==
    <<85, 95, 95, 97, 98, 99, 95, 50, 48, 95, 95, 52, 101, 50, 100, 95,
      95, 54, 53, 56, 55, 95>>

\* C16: EscapeName returns a name that matches the safe pattern, and the
\* empty one, unchanged; any other name as "U__" and then its characters in
\* order, a legal one unchanged and an illegal one (an illegal first one
\* too) as '_' + lowercase hex code point + '_': "0a_b:c" gives
\* "U___30_a_b:c" and "abc" U+0020 U+4E2D U+6587 gives "U__abc_20__4e2d__6587_".
C16_EscapeName ==
    \A i \in 1..Len(hist.log) :
        LET s == hist.log[i].name
            e == EscapedIn(hist.log[i].fq)
        IN  /\ SubSeq(hist.log[i].fq, 1, Len(S_counter)) = S_counter
            /\ (s = <<>> \/ MatchesSafePattern(s)) => e = s
            /\ ~(s = <<>> \/ MatchesSafePattern(s)) =>
                  e = <<85, 95, 95>> \o WrittenUpTo(s, Len(s))
            /\ s = S_0a_b_c => e = S_U_30_a_b_c
            /\ s = S_abc_zhongwen => e = S_U_abc_20_4e2d_6587

\* The caller has recorded "abc" U+0020 U+4E2D U+6587 and then "0a_b:c"
C16_Witness ==
    /\ Len(hist.log) = 2
    /\ hist.log[1].name = S_abc_zhongwen
    /\ hist.log[2].name = S_0a_b_c
    /\ EscapedIn(g[Caller].call.fq) = S_U_30_a_b_c
    /\ g[Caller].pc = "idle" /\ g[Caller].wrote = 1

\* C17: the escaping is collision-free: calls with different raw names use
\* different names, and so different metric families.
C17_EscapeCollisionFree ==
    \A i, j \in 1..Len(hist.log) :
        hist.log[i].name # hist.log[j].name => hist.log[i].fq # hist.log[j].fq

\* The families that hold an observation, and those whose registration
\* against the registry has been performed
InUse(ca, ser) ==
    {e \in CacheKinds \X UNION {DOMAIN ca[k] : k \in CacheKinds} :
        e[2] \in DOMAIN ca[e[1]] /\ ca[e[1]][e[2]].Val1.id \in DOMAIN ser}
RegistrationDone(rc) == DOMAIN rc

\* C18: a family goes from unregistered to registered to in-use: in every
\* interleaving no observation is written into a family before its
\* registration against the registry has been performed, no family goes back
\* to unregistered and none is removed from its cache.
C18_RegisteredBeforeInUse ==
    [][/\ InUse(cache', series') \subseteq RegistrationDone(regCalls')
       /\ RegistrationDone(regCalls) \subseteq RegistrationDone(regCalls')
       /\ \A k \in CacheKinds : DOMAIN cache[k] \subseteq DOMAIN cache'[k]]_vars

\* C20 as stated: every recording call performs at most one registration of
\* a metric family against the registry and exactly one observation write.
C20_ExactlyOneWrite ==
    \A p \in Procs : g[p].k > 0 =>
        /\ g[p].regs <= 1 /\ g[p].wrote <= 1
        /\ g[p].pc = "idle" => g[p].wrote = 1

\* C20, amended: every recording call performs at most one registration of
\* its family against the registry (one when its candidate was stored, none
\* when it loaded the family) and at most one observation write: one when its
\* label keys are those of the stored family, none when they differ.
C20_AtMostOneWrite ==
    \A p \in Procs : g[p].k > 0 =>
        /\ g[p].regs <= 1 /\ g[p].wrote <= 1
        /\ g[p].pc = "idle" =>
              /\ g[p].regs = (IF g[p].loaded THEN 0 ELSE 1)
              /\ g[p].wrote =
                    (IF g[p].call.keys = Stored(p).Val1.keys THEN 1 ELSE 0)

\* One call has registered its family and written, another has loaded that
\* family and returned without a write
C20_Witness ==
    \E p, q \in Procs :
        /\ g[p].k > 0 /\ g[p].pc = "idle" /\ g[p].regs = 1 /\ g[p].wrote = 1
        /\ g[q].k > 0 /\ g[q].pc = "idle" /\ g[q].regs = 0 /\ g[q].wrote = 0
        /\ g[q].call.fq = g[p].call.fq /\ g[q].call.kind = g[p].call.kind
        /\ g[q].call.keys # g[p].call.keys

\* Calls on two raw names, of two kinds
MenuWait ==
    { In("Record", S_m, Ctx0, <<>>),
      In("Record", S_reqs, Ctx0, <<>>),
      InN("Store", S_m, Ctx0, <<>>, 3) }
NextWait ==
    \E p \in Procs :
        \/ \E in \in MenuWait : StartCall(p, in)
        \/ GetVec(p) \/ Register(p) \/ GetMetric(p)

\* Where each goroutine is in its call: every step of a call changes it
pcs == [q \in Procs |-> g[q].pc]

\* Goroutine p, inside a call, takes the next step of it
\* NewClient() and goroutines that call different metrics; the scheduler
\* runs every goroutine that can run
SpecWait ==
    /\ Init /\ [][NextWait]_vars
    /\ \A p \in Procs : WF_pcs(GetVec(p) \/ Register(p) \/ GetMetric(p))

\* C19: no call waits on another metric: wherever the other callers are
\* paused, between a cache insert and its registration too, a goroutine
\* inside a call can take its next step, and every call returns.
C19_NoCallWaits ==
    /\ [](\A p \in Procs : g[p].pc # "idle" => ENABLED Step(p))
    /\ \A p \in Procs : (g[p].pc # "idle") ~> (g[p].pc = "idle")

\* A caller is between the cache insert and the registration of one metric
\* while another is about to write to a registered metric of another name
C19_Witness ==
    \E p, q \in Procs :
        /\ g[p].pc = "register" /\ g[q].pc = "metric" /\ g[q].loaded
        /\ g[q].call.fq # g[p].call.fq
        /\ <<g[q].call.kind, g[q].call.fq>> \in DOMAIN regCalls
        /\ <<g[p].call.kind, g[p].call.fq>> \notin DOMAIN regCalls

\* First-use calls of RecordN on one new name with the label keys {k1}
\* (from the call and from the ctx), {k2}, {k1, k2} and {}
MenuKeyRace ==
    { InN("RecordN", S_m, Ctx0, <<"k1", "v1">>, 1),
      InN("RecordN", S_m, Ctx1, <<>>, 4),
      InN("RecordN", S_m, Ctx0, <<"k2", "v1">>, 2),
      InN("RecordN", S_m, Ctx1, <<"k2", "v2">>, 2),
      InN("RecordN", S_m, Ctx0, <<>>, 3) }

NextKeyRace ==
    \E p \in Procs :
        \/ \E in \in MenuKeyRace : StartFirst(p, in)
        \/ GetVec(p) \/ Register(p) \/ GetMetric(p)

\* NewClient() and goroutines that each make one RecordN call on the same
\* new name, with different label keys
SpecKeyRace == Init /\ [][NextKeyRace]_vars

\* The goroutine whose candidate is the family stored under p's name
WinnerOf(p) == Stored(p).Val1.id[1]

\* C24: when first-use calls for one new name race with different label-key
\* sets, the key set of the caller whose cache insert wins is the family's
\* schema: exactly the racing calls with the winner's key set write an
\* observation, every other one reports a label mismatch and writes nothing.
C24_WinnerSetsSchema ==
    /\ \A p \in Procs : g[p].k > 0 /\ g[p].pc = "idle" =>
          /\ Stored(p).Val1.keys = g[WinnerOf(p)].call.keys
          /\ IF g[p].call.keys = g[WinnerOf(p)].call.keys
             THEN /\ g[p].wrote = 1 /\ g[p].reported = <<>>
                  /\ g[p].call.tags \in DOMAIN series[Stored(p).Val1.id]
             ELSE /\ g[p].wrote = 0
                  /\ g[p].reported = <<"get_" \o g[p].call.kind>>
    /\ AllReturned =>
          LET fam == Stored(1).Val1
              W == g[WinnerOf(1)].call.keys
          IN  /\ DOMAIN series = {fam.id}
              /\ DOMAIN series[fam.id] =
                    {g[p].call.tags : p \in {q \in Procs : g[q].call.keys = W}}
              /\ \A t \in DOMAIN series[fam.id] :
                    series[fam.id][t].sum =
                        SumOver({p \in Procs : g[p].call.tags = t},
                                [p \in Procs |-> g[p].call.value])

\* A call with the keys {k1} has reported the mismatch and returned while
\* the winner, with the keys {k1, k2}, has not yet registered the family
C24_Witness ==
    \E p, w \in Procs :
        /\ g[p].k > 0 /\ g[p].pc = "idle" /\ g[p].wrote = 0
        /\ g[p].call.keys = {"k1"}
        /\ g[p].reported = <<"get_counter">>
        /\ w = WinnerOf(p) /\ g[w].pc = "register"
        /\ g[w].call.keys = {"k1", "k2"}

\* Histogram and summary calls on one raw name, each kind with two label-key
\* sets and two configs
MenuDrift ==
    { InHist(S_m, Ctx1, <<>>, 1500, B123),
      InHist(S_m, Ctx0, <<>>, 7000, B510),
      InSum(S_m, Ctx1, <<>>, 1500, O59),
      InSum(S_m, Ctx0, <<>>, 2500, O5) }

NextDrift ==
    \E p \in Procs :
        \/ \E in \in MenuDrift : StartCall(p, in)
        \/ GetVec(p) \/ Register(p) \/ CheckConfig(p) \/ GetMetric(p)

\* NewClient() and goroutines that make histogram and summary calls whose
\* config and label keys both vary
SpecDrift == Init /\ [][NextDrift]_vars

\* The config asked for by p's call is not the stored one; its label keys
\* are not the stored family's
Drifts(p) ==
    IF g[p].call.kind = "histogram"
    THEN g[p].call.opts.Buckets # Stored(p).Val2.Buckets
    ELSE g[p].call.opts.Objectives.pairs # Stored(p).Val2.Objectives.pairs
KeysDiffer(p) == g[p].call.keys # Stored(p).Val1.keys

\* C25: a histogram or summary call whose config differs from the stored
\* one and whose label keys differ from the family's reports two errors, the
\* config drift and then the label mismatch, and writes no observation; the
\* stored config and the stored family stay as they are.
C25_DriftThenMismatch ==
    [][\A p \in Procs :
          (g[p].k > 0 /\ g[p].pc \in {"check", "metric"}
              /\ Drifts(p) /\ KeysDiffer(p)) =>
              LET kind == g[p].call.kind
                  drift == IF kind = "histogram" THEN "histogram_buckets_mismatch"
                           ELSE "summary_objectives_mismatch"
              IN  /\ Stored(p)' = Stored(p)
                  /\ Checks(p) =>
                        /\ g[p].reported = <<>>
                        /\ g'[p].reported = <<drift>>
                        /\ Count(errCalls', <<g[p].call.fq, drift>>) =
                               Count(errCalls, <<g[p].call.fq, drift>>) + 1
                  /\ Returns(p) =>
                        /\ g'[p].reported = <<drift, "get_" \o kind>>
                        /\ Count(errCalls', <<g[p].call.fq, "get_" \o kind>>) =
                               Count(errCalls, <<g[p].call.fq, "get_" \o kind>>) + 1
                        /\ g'[p].wrote = 0
                        /\ series' = series]_vars

\* A histogram call with other buckets and other label keys than the stored
\* family's has returned with the two reports and no write
C25_Witness ==
    \E p \in Procs :
        /\ g[p].k > 0 /\ g[p].pc = "idle" /\ g[p].call.kind = "histogram"
        /\ Drifts(p) /\ KeysDiffer(p)
        /\ g[p].reported = <<"histogram_buckets_mismatch", "get_histogram">>
        /\ g[p].wrote = 0

\* C23: in a client whose registry only its own recording calls write, every
\* family stored in a cache is the collector the registry holds under its
\* fully-qualified name (once the calls under way have returned), and the
\* caches of two kinds never hold families of the same name.
C23_CacheIsRegistry ==
    /\ (\A p \in Procs : g[p].pc = "idle") =>
          \A k \in CacheKinds : \A n \in DOMAIN cache[k] :
              n \in DOMAIN registry /\ registry[n] = VecEntry(cache[k][n].Val1)
    /\ \A k1, k2 \in CacheKinds :
          k1 # k2 => DOMAIN cache[k1] \cap DOMAIN cache[k2] = {}

(***************************************************************************)
(* Timer and its stop function                                             *)
(***************************************************************************)
MaxClock == 2

\* client.Timer(buckets...): the closure it returns holds start and buckets
TimerStart(c, buckets, now) ==
    [open |-> TRUE, start |-> now, asked |-> buckets,
     buckets |-> IF Len(buckets) = 0 THEN c.buckets ELSE buckets]

\* An elapsed time taken from a start read when the stop function runs
TimerCostAtStop(h, now) == now - now

\* time.Since(start) in the stop function
TimerCost(h, now) == now - h.start

\* The clock moves on by a millisecond
Tick ==
    /\ timers.now < MaxClock * Millisecond
    /\ timers' = [timers EXCEPT !.now = @ + Millisecond]
    /\ UNCHANGED <<client, registry, cache, series, g, ncalls, errCalls, regCalls,
                   sinkDrops, mem, hist, pkg>>

\* c.Timer(buckets...): the program keeps the stop function
TimerCall(buckets) ==
    /\ ~timers.held.open
    /\ timers' = [timers EXCEPT !.held = TimerStart(client, buckets, timers.now)]
    /\ UNCHANGED <<client, registry, cache, series, g, ncalls, errCalls, regCalls,
                   sinkDrops, mem, hist, pkg>>

\* p calls the stop function: cost is its local, which it returns after
\* recordHistogram
Stop(p, name, ctx, kvs) ==
    /\ timers.held.open
    /\ g[p].k = 0
    /\ LET t == timers.held
           cost == TimerCost(t, timers.now)
       IN  /\ Enter(p, Input("Timer", name, ctx, kvs, IntV(0), cost, t.buckets, NilMap))
           /\ timers' = [timers EXCEPT !.last[p] =
                            [name |-> name, start |-> t.start, buckets |-> t.buckets,
                             at |-> timers.now, cost |-> cost]]
    /\ UNCHANGED <<mem, hist, pkg>>

TimerBuckets == {<<>>, B123}
TimerLabels == {[ctx |-> Ctx1, kvs |-> <<>>], [ctx |-> Ctx0, kvs |-> <<>>]}

NextTimer ==
    \/ Tick
    \/ \E b \in TimerBuckets : TimerCall(b)
    \/ \E p \in Procs :
          \/ \E a \in TimerLabels : Stop(p, S_m, a.ctx, a.kvs)
          \/ GetVec(p) \/ Register(p) \/ CheckConfig(p) \/ GetMetric(p)

\* NewClient(), a clock, a Timer made with or without buckets, and
\* goroutines that each call its stop function, with the label keys {k1}
\* or {}
SpecTimer == Init /\ [][NextTimer]_vars

\* C21: Timer holds the instant of its call and the buckets given (the
\* client's when none are given); a call of the stop function takes the time
\* elapsed since that instant, hands it in seconds with the held buckets to
\* the histogram family of the Timer name, where a write adds exactly it, and
\* returns that same elapsed time whether or not the observation is written.
C21_TimerElapsed ==
    /\ [](\A p \in Procs :
            /\ timers.held.open =>
                  LET t == timers.held
                  IN  /\ t.start <= timers.now
                      /\ t.buckets = IF t.asked = <<>> THEN DefBuckets ELSE t.asked
            /\ g[p].k > 0 =>
                  LET l == timers.last[p]
                      c == g[p].call
                  IN  /\ l.start = timers.held.start /\ l.buckets = timers.held.buckets
                      /\ l.cost = l.at - l.start
                      /\ l.at <= timers.now
                      /\ c.kind = "histogram"
                      /\ c.fq = S_timer \o l.name \o S_seconds
                      /\ c.value = l.cost \div Millisecond
                      /\ c.opts.Buckets = l.buckets
                      /\ (g[p].pc \notin {"idle", "get"} /\ ~g[p].loaded) =>
                             Stored(p).Val2.Buckets = l.buckets)
    /\ [][\A p \in Procs : Returns(p) =>
            /\ timers'.last[p] = timers.last[p]
            /\ LET id == Stored(p).Val1.id
                   t == g[p].call.tags
                   old == IF id \in DOMAIN series /\ t \in DOMAIN series[id]
                          THEN series[id][t] ELSE NoMetric
               IN  IF g'[p].wrote = 1
                   THEN /\ series'[id][t].count = old.count + 1
                        /\ series'[id][t].sum =
                              old.sum + (timers.last[p].cost \div Millisecond)
                   ELSE /\ series' = series
                        /\ g'[p].reported # <<>>]_vars

\* A stop function made at 0 ms with no buckets was called twice: at 1 ms
\* with the family's label keys, which wrote 0.001 s, and at 2 ms with other
\* keys, which wrote nothing and returned 2 ms
C21_Witness ==
    \E p, q \in Procs :
        /\ p # q /\ g[p].pc = "idle" /\ g[q].pc = "idle"
        /\ g[p].wrote = 1 /\ g[p].call.value = 1
        /\ timers.last[p].cost = Millisecond /\ timers.last[p].buckets = DefBuckets
        /\ g[q].k > 0 /\ g[q].wrote = 0 /\ g[q].reported = <<"get_histogram">>
        /\ timers.last[q].cost = 2 * Millisecond
        /\ timers.last[q].start = timers.last[p].start
        /\ series[Stored(p).Val1.id][g[p].call.tags].sum = 1

(***************************************************************************)
(* The package-level default client                                        *)
(***************************************************************************)
S_promhttp_requests_total ==
    <<112, 114, 111, 109, 104, 116, 116, 112, 95, 109, 101, 116, 114, 105, 99, 95, 104, 97, 110, 100, 108, 101, 114, 95, 114, 101, 113, 117, 101, 115, 116, 115, 95, 116, 111, 116, 97, 108>>
S_promhttp_requests_in_flight ==
    <<112, 114, 111, 109, 104, 116, 116, 112, 95, 109, 101, 116, 114, 105, 99, 95, 104, 97, 110, 100, 108, 101, 114, 95, 114, 101, 113, 117, 101, 115, 116, 115, 95, 105, 110, 95, 102, 108, 105, 103, 104, 116>>

\* HTTPHandler's closure: defaultClient.Handler(), with the defaultClient d
\* that the goroutine serving the request reads
HandlerTarget(h, d) == d

\* promhttp.InstrumentMetricHandler(c.registry, ...): the two collectors of
\* the handler are in the registry from the first request on
Instrumented(reg) ==
    [n \in DOMAIN reg \cup {S_promhttp_requests_total, S_promhttp_requests_in_flight} |->
        IF n \in DOMAIN reg THEN reg[n] ELSE External]

\* The registry of client c
RegistryOf(c) == IF c = pkg.cur THEN registry ELSE pkg.parked[c].registry

\* defaultClient = d by goroutine p, a plain assignment: p reads d from now
\* on; a goroutine that nothing orders after p's assignment may read d or
\* what it could read before
SetDefault(p, d) ==
    /\ g[p].pc = "idle"
    /\ ncalls < MaxCalls
    /\ d # pkg.default
    /\ ncalls' = ncalls + 1
    /\ pkg' = [pkg EXCEPT !.default = d,
                          !.seen = [q \in Procs |->
                                      IF q = p THEN {d} ELSE pkg.seen[q] \cup {d}]]
    /\ UNCHANGED <<client, registry, cache, series, g, errCalls, regCalls,
                   sinkDrops, mem, hist, timers>>

\* Goroutine q does something that the last assignment happens before (it
\* is started, or receives from a channel, after it)
Ordered(q) ==
    /\ pkg.seen[q] # {pkg.default}
    /\ pkg' = [pkg EXCEPT !.seen[q] = {pkg.default}]
    /\ UNCHANGED <<client, registry, cache, series, g, ncalls, errCalls, regCalls,
                   sinkDrops, mem, hist, timers>>

\* Default() by p
Default(p, d) ==
    /\ g[p].pc = "idle"
    /\ d \in pkg.seen[p]
    /\ ncalls < MaxCalls
    /\ ncalls' = ncalls + 1
    /\ pkg' = [pkg EXCEPT !.got[p] = d]
    /\ UNCHANGED <<client, registry, cache, series, g, errCalls, regCalls,
                   sinkDrops, mem, hist, timers>>

\* HTTPHandler() by p: one more handler
HTTPHandler(p, d) ==
    /\ g[p].pc = "idle"
    /\ d \in pkg.seen[p]
    /\ Len(pkg.handlers) < NProcs
    /\ ncalls < MaxCalls
    /\ ncalls' = ncalls + 1
    /\ pkg' = [pkg EXCEPT !.handlers = Append(@, [built |-> d])]
    /\ UNCHANGED <<client, registry, cache, series, g, errCalls, regCalls,
                   sinkDrops, mem, hist, timers>>

\* p serves a request with handler i: defaultClient.Handler().ServeHTTP(w, r)
Serve(p, i, d) ==
    /\ g[p].pc = "idle"
    /\ d \in pkg.seen[p]
    /\ i <= Len(pkg.handlers)
    /\ ncalls < MaxCalls
    /\ ncalls' = ncalls + 1
    /\ LET c == HandlerTarget(pkg.handlers[i], d)
       IN  /\ IF c = pkg.cur
              THEN /\ registry' = Instrumented(registry)
                   /\ pkg' = [pkg EXCEPT !.served[p] = c]
              ELSE /\ registry' = registry
                   /\ pkg' = [pkg EXCEPT !.served[p] = c,
                                         !.parked[c].registry = Instrumented(@)]
    /\ UNCHANGED <<client, cache, series, g, errCalls, regCalls,
                   sinkDrops, mem, hist, timers>>

\* The state of the client the variables hold
Current ==
    [client |-> client, registry |-> registry, cache |-> cache, series |-> series,
     errCalls |-> errCalls, regCalls |-> regCalls, sinkDrops |-> sinkDrops]

\* A package-level function by p: defaultClient.Record(...), ..., with the
\* defaultClient d that p reads.  A call on another client than the last
\* one starts when no call is under way (clients share nothing).
PkgCall(p, in, d) ==
    /\ d \in pkg.seen[p]
    /\ IF d = pkg.cur
       THEN /\ Enter(p, in)
            /\ pkg' = [pkg EXCEPT !.on[p] = d]
       ELSE /\ \A q \in Procs : g[q].pc = "idle"
            /\ ncalls < MaxCalls
            /\ ncalls' = ncalls + 1
            /\ LET st == pkg.parked[d]
               IN  /\ client' = st.client
                   /\ registry' = st.registry
                   /\ cache' = st.cache
                   /\ series' = st.series
                   /\ errCalls' = st.errCalls
                   /\ regCalls' = st.regCalls
                   /\ sinkDrops' = st.sinkDrops
                   /\ g' = [g EXCEPT ![p] =
                              [pc |-> "get", k |-> g[p].k + 1,
                               call |-> Facade(st.client, in),
                               v |-> NoVec, loaded |-> FALSE, err |-> None,
                               reported |-> <<>>, logged |-> <<>>, wrote |-> 0,
                               regs |-> 0]]
            /\ pkg' = [pkg EXCEPT !.cur = d, !.on[p] = d,
                                  !.parked[pkg.cur] = Current]
    /\ UNCHANGED <<mem, hist, timers>>

MenuDefault == { In("Record", S_m, Ctx0, <<>>) }

NextDefault ==
    \E p \in Procs :
        \/ \E d \in Clients :
              \/ SetDefault(p, d)
              \/ Default(p, d)
              \/ HTTPHandler(p, d)
              \/ \E i \in 1..NProcs : Serve(p, i, d)
              \/ \E in \in MenuDefault : PkgCall(p, in, d)
        \/ Ordered(p)
        \/ GetVec(p) \/ Register(p) \/ GetMetric(p)

\* The package after init(), a second client, and goroutines that swap the
\* default, ask for it, serve requests and call Record and Store of the
\* package
SpecDefault == Init /\ [][NextDefault]_vars

\* What p's step makes of the defaultClient it read: the registry a request
\* is served from, the result of Default(), the client recorded into
ServedFrom(p, d) == (\E i \in 1..NProcs : Serve(p, i, d)) => pkg'.served[p] = d
DefaultGives(p, d) == Default(p, d) => pkg'.got[p] = d
RecordsInto(p, d) ==
    (\E in \in MenuDefault : PkgCall(p, in, d)) =>
        /\ pkg'.on[p] = d /\ pkg'.cur = d
        /\ g'[p].call.fq = S_counter \o S_m

\* Every request is served from the registry of the client a read of
\* defaultClient at the time of the request gives, whenever the handler was
\* built, and a goroutine ordered after the last SetDefault(d) is served from
\* d's registry, gets d from Default() and records into d.
OrderedReadsSeeSwap ==
    [][\A p \in Procs : \A d \in Clients :
          /\ ServedFrom(p, d) /\ DefaultGives(p, d) /\ RecordsInto(p, d)
          /\ (/\ pkg.seen[p] = {pkg.default}
              /\ \/ Default(p, d)
                 \/ \E i \in 1..NProcs : Serve(p, i, d)
                 \/ \E in \in MenuDefault : PkgCall(p, in, d))
             => d = pkg.default]_vars

\* C22: once SetDefault(d) is done, every request, whenever its handler was
\* built, is served from d's registry, every Default() returns d and every
\* package-level recording function records into d.
C22_DefaultSwapped ==
    [][\A p \in Procs : \A d \in Clients :
          (Default(p, d) \/ (\E i \in 1..NProcs : Serve(p, i, d))
             \/ (\E in \in MenuDefault : PkgCall(p, in, d)))
          => /\ d = pkg.default
             /\ ServedFrom(p, d) /\ DefaultGives(p, d) /\ RecordsInto(p, d)]_vars
====
